---- MODULE Spec2Model ----
(***************************************************************************)
(* A model of nfactorial/webgl_help: the device state cache (WebGLState), *)
(* the WebGL context it drives, and the buffer wrappers that reach the    *)
(* context through it or around it.                                       *)
(*                                                                         *)
(* Every library operation is a pure operator from the cache (and its     *)
(* arguments) to an outcome record                                        *)
(*     [st, calls, ret, err]                                               *)
(* holding the cache afterwards, the context calls issued in order, the   *)
(* value returned and the error thrown ("none" when it returned).  An     *)
(* action applies one operation, lets the context execute the calls and   *)
(* appends the operation to the trace.                                    *)
(***************************************************************************)
EXTENDS Integers, Sequences, FiniteSets, TLC

VARIABLES
    state,   \* the WebGLState instance (the device state cache)
    glctx,   \* what the WebGL context itself holds
    bufs,    \* the buffer wrapper objects of the application
    geom,    \* the GeometryBuffer object of the application
    res,     \* the shader, program and texture handles of the application
    registry, \* the attribute buffer registry and the identity counter
    trace    \* the operations performed so far, each with the calls it issued

vars == <<state, glctx, bufs, geom, res, registry, trace>>

---------------------------------------------------------------------------
(* Bounds of the model.                                                    *)

\* Longest sequence of operations explored in the single-concern specifications.
MaxOps == 3
\* Longest sequence of useProgram calls explored.
MaxProgramOps == 5
\* Longest sequence of enableAttributes and invalidate calls explored.
MaxAttributeOps == 4
\* Longest sequence of operations explored when every operation is available.
MaxOpsAll == 3
\* Operations in a run of the geometry buffers, and of a program handle.
MaxGeometryOps == 4
\* QuadIndexBuffer is constructed with capacities up to MaxQuads.
MaxQuads == 7

---------------------------------------------------------------------------
(* JavaScript values.                                                      *)

\* null: InvalidProgramId, InvalidBufferId, InvalidTextureId, InvalidFrameBufferId.
Null == 0
\* undefined: an omitted argument, a property never assigned.
Undefined == -9

\* JavaScript truthiness of a number, null or undefined (if (x) ...).
Truthy(v) == v # 0 /\ v # Null /\ v # Undefined

---------------------------------------------------------------------------
(* Program constants.                                                      *)

MAXIMUM_TEXTURE_UNITS == 32
INVALID_COLOR_VALUE == -1
INVALID_DEPTH_VALUE == -1000
INVALID_STENCIL_VALUE == -1

\* DepthCompare enumeration (primitives).
DepthCompare_Never == 0
DepthCompare_Less == 1
DepthCompare_Equal == 2
DepthCompare_NotEqual == 3
DepthCompare_LessEqual == 4
DepthCompare_Greater == 5
DepthCompare_GreaterEqual == 6
DepthCompare_Always == 7

\* Enumerants of the WebGL context, read as gl.NAME by the library.
GL_NEVER == 512
GL_LESS == 513
GL_EQUAL == 514
GL_LEQUAL == 515
GL_GREATER == 516
GL_NOTEQUAL == 517
GL_GEQUAL == 518
GL_ALWAYS == 519
GL_CULL_FACE == 2884
GL_DEPTH_TEST == 2929
GL_TEXTURE_2D == 3553
GL_ARRAY_BUFFER == 34962
GL_ELEMENT_ARRAY_BUFFER == 34963
GL_BACK == 1029

---------------------------------------------------------------------------
(* Outcomes and context calls.                                             *)

Call(fn, a) == [fn |-> fn, a |-> a]

Returns(st, calls, ret) == [st |-> st, calls |-> calls, ret |-> ret, err |-> "none"]
Throws(st, calls, err) == [st |-> st, calls |-> calls, ret |-> "none", err |-> err]

\* The calls of a sequence made to context function fn.
CallsTo(calls, fn) == SelectSeq(calls, LAMBDA c : c.fn = fn)

RECURSIVE Flatten(_)
Flatten(ss) == IF ss = <<>> THEN <<>> ELSE Head(ss) \o Flatten(Tail(ss))

---------------------------------------------------------------------------
(* WebGLState: construction and initialisation.                            *)

Cell(isSet, value) == [isSet |-> isSet, value |-> value]

\* new WebGLState(): vaoId is never assigned by the constructor.
WebGLStateNew ==
    [ gl               |-> FALSE,
      activeProgram    |-> Null,
      frameBuffer      |-> Null,
      cullEnabled      |-> Cell(FALSE, FALSE),
      cullMode         |-> Cell(FALSE, -1),
      depthCompare     |-> Cell(FALSE, -1),
      depthTest        |-> Cell(FALSE, FALSE),
      depthWrite       |-> Cell(FALSE, TRUE),
      clearColor       |-> [r |-> INVALID_COLOR_VALUE, g |-> INVALID_COLOR_VALUE,
                            b |-> INVALID_COLOR_VALUE, a |-> INVALID_COLOR_VALUE],
      clearDepth       |-> INVALID_DEPTH_VALUE,
      clearStencil     |-> INVALID_STENCIL_VALUE,
      attributeCount   |-> 0,
      attributeBufferId |-> -1,
      arrayBuffer      |-> Null,
      OES_vertex_array_object |-> FALSE,
      elementArrayBuffer |-> Null,
      vaoId            |-> Undefined,
      bindVertexArray  |-> "stub",
      textureUnits     |-> [u \in 0 .. (MAXIMUM_TEXTURE_UNITS - 1) |->
                               [type |-> 0, texture |-> Null]] ]

\* The kinds of context the library can be given: WebGL 1.0 with or without
\* the OES_vertex_array_object extension, and WebGL 2.0.
ContextKinds == {"webgl1", "webgl1-oes", "webgl2"}

\* WebGLState.initialize(gl) for a non-null context of kind k.
initialize(st, k) ==
    IF k \in {"webgl1", "webgl1-oes"}
    THEN [st EXCEPT !.gl = TRUE,
                    !.bindVertexArray = "_bindVertexArrayOES",
                    !.OES_vertex_array_object = (k = "webgl1-oes")]
    ELSE [st EXCEPT !.gl = TRUE, !.bindVertexArray = "_bindVertexArray"]

---------------------------------------------------------------------------
(* WebGLState: the tracked setters.                                        *)

useProgram(st, programId) ==
    IF st.activeProgram # programId
    THEN Returns([st EXCEPT !.activeProgram = programId],
                 <<Call("useProgram", <<programId>>)>>, "true")
    ELSE Returns(st, <<>>, "false")

\* bindArrayBuffer that writes the element array cell as well.
bindArrayBuffer_BothCells(st, bufferId) ==
    IF st.arrayBuffer # bufferId
    THEN Returns([st EXCEPT !.arrayBuffer = bufferId, !.elementArrayBuffer = bufferId],
                 <<Call("bindBuffer", <<GL_ARRAY_BUFFER, bufferId>>)>>, "true")
    ELSE Returns(st, <<>>, "false")

bindArrayBuffer(st, bufferId) ==
    IF st.arrayBuffer # bufferId
    THEN Returns([st EXCEPT !.arrayBuffer = bufferId],
                 <<Call("bindBuffer", <<GL_ARRAY_BUFFER, bufferId>>)>>, "true")
    ELSE Returns(st, <<>>, "false")

\* bindElementArrayBuffer that reports a change whether or not it made one.
bindElementArrayBuffer_AlwaysTrue(st, bufferId) ==
    IF st.elementArrayBuffer # bufferId
    THEN Returns([st EXCEPT !.elementArrayBuffer = bufferId],
                 <<Call("bindBuffer", <<GL_ELEMENT_ARRAY_BUFFER, bufferId>>)>>, "true")
    ELSE Returns(st, <<>>, "true")

bindElementArrayBuffer(st, bufferId) ==
    IF st.elementArrayBuffer # bufferId
    THEN Returns([st EXCEPT !.elementArrayBuffer = bufferId],
                 <<Call("bindBuffer", <<GL_ELEMENT_ARRAY_BUFFER, bufferId>>)>>, "true")
    ELSE Returns(st, <<>>, "false")

\* bindFrameBuffer(frameBuffer): the cache is written before the context call,
\* which is logged under the name the code calls, gl.bindFrameBuffer.
bindFrameBuffer(st, frameBuffer) ==
    IF frameBuffer # st.frameBuffer
    THEN Returns([st EXCEPT !.frameBuffer = frameBuffer],
                 <<Call("bindFrameBuffer", <<frameBuffer>>)>>, "true")
    ELSE Returns(st, <<>>, "false")

\* bindTexture2D(textureUnit, textureId).  A unit that passes the range test
\* but has no entry in the unit table makes the read of its .type throw.
\* bindTexture2D comparing only the type bound to the unit.
bindTexture2D_TypeOnly(st, textureUnit, textureId) ==
    IF textureUnit < 0 \/ textureUnit > MAXIMUM_TEXTURE_UNITS
    THEN Throws(st, <<>>, "Invalid texture unit id.")
    ELSE IF textureUnit \notin DOMAIN st.textureUnits
    THEN Throws(st, <<>>, "TypeError")
    ELSE IF st.textureUnits[textureUnit].type # GL_TEXTURE_2D
    THEN Returns([st EXCEPT !.textureUnits[textureUnit] =
                                [type |-> GL_TEXTURE_2D, texture |-> textureId]],
                 <<Call("bindTexture", <<GL_TEXTURE_2D + textureUnit, textureId>>)>>,
                 "true")
    ELSE Returns(st, <<>>, "false")

bindTexture2D(st, textureUnit, textureId) ==
    IF textureUnit < 0 \/ textureUnit > MAXIMUM_TEXTURE_UNITS
    THEN Throws(st, <<>>, "Invalid texture unit id.")
    ELSE IF textureUnit \notin DOMAIN st.textureUnits
    THEN Throws(st, <<>>, "TypeError")
    ELSE IF st.textureUnits[textureUnit].type # GL_TEXTURE_2D
            \/ st.textureUnits[textureUnit].texture # textureId
    THEN Returns([st EXCEPT !.textureUnits[textureUnit] =
                                [type |-> GL_TEXTURE_2D, texture |-> textureId]],
                 <<Call("bindTexture", <<GL_TEXTURE_2D + textureUnit, textureId>>)>>,
                 "true")
    ELSE Returns(st, <<>>, "false")

\* setCullMode that looks at the mode only when the enabled flag changed.
setCullMode_ModeWithEnabled(st, enabled, mode) ==
    LET setEnabled == ~st.cullEnabled.isSet \/ enabled # st.cullEnabled.value
        st1 == IF setEnabled
               THEN [st EXCEPT !.cullEnabled = Cell(TRUE, enabled)]
               ELSE st
        c1 == IF setEnabled
              THEN <<Call(IF enabled THEN "enable" ELSE "disable", <<GL_CULL_FACE>>)>>
              ELSE <<>>
        setMode == setEnabled /\ Truthy(mode)
                   /\ (~st1.cullMode.isSet \/ mode # st1.cullMode.value)
    IN  IF setMode
        THEN Returns([st1 EXCEPT !.cullMode = Cell(TRUE, mode)],
                     c1 \o <<Call("cullFace", <<mode>>)>>, "undefined")
        ELSE Returns(st1, c1, "undefined")

\* setCullMode(enabled, mode); mode is Undefined when omitted.
setCullMode(st, enabled, mode) ==
    LET setEnabled == ~st.cullEnabled.isSet \/ enabled # st.cullEnabled.value
        st1 == IF setEnabled
               THEN [st EXCEPT !.cullEnabled = Cell(TRUE, enabled)]
               ELSE st
        c1 == IF setEnabled
              THEN <<Call(IF enabled THEN "enable" ELSE "disable", <<GL_CULL_FACE>>)>>
              ELSE <<>>
        setMode == Truthy(mode) /\ (~st1.cullMode.isSet \/ mode # st1.cullMode.value)
    IN  IF setMode
        THEN Returns([st1 EXCEPT !.cullMode = Cell(TRUE, mode)],
                     c1 \o <<Call("cullFace", <<mode>>)>>, "undefined")
        ELSE Returns(st1, c1, "undefined")

\* setDepthTestNative that records the comparison without marking it set.
setDepthTestNative_CompareNeverSet(st, enabled, compare) ==
    LET setEnabled == ~st.depthTest.isSet \/ enabled # st.depthTest.value
        st1 == IF setEnabled
               THEN [st EXCEPT !.depthTest = Cell(TRUE, enabled)]
               ELSE st
        c1 == IF setEnabled
              THEN <<Call(IF enabled THEN "enable" ELSE "disable", <<GL_DEPTH_TEST>>)>>
              ELSE <<>>
        setCompare == compare # Undefined
                      /\ (~st1.depthCompare.isSet \/ compare # st1.depthCompare.value)
    IN  IF setCompare
        THEN Returns([st1 EXCEPT !.depthCompare.value = compare],
                     c1 \o <<Call("depthFunc", <<compare>>)>>, "undefined")
        ELSE Returns(st1, c1, "undefined")

\* setDepthTestNative(enabled, compare); compare is Undefined when omitted.
setDepthTestNative(st, enabled, compare) ==
    LET setEnabled == ~st.depthTest.isSet \/ enabled # st.depthTest.value
        st1 == IF setEnabled
               THEN [st EXCEPT !.depthTest = Cell(TRUE, enabled)]
               ELSE st
        c1 == IF setEnabled
              THEN <<Call(IF enabled THEN "enable" ELSE "disable", <<GL_DEPTH_TEST>>)>>
              ELSE <<>>
        setCompare == compare # Undefined
                      /\ (~st1.depthCompare.isSet \/ compare # st1.depthCompare.value)
    IN  IF setCompare
        THEN Returns([st1 EXCEPT !.depthCompare = Cell(TRUE, compare)],
                     c1 \o <<Call("depthFunc", <<compare>>)>>, "undefined")
        ELSE Returns(st1, c1, "undefined")

\* setDepthTest that applies the enabled flag before it looks at compare.
setDepthTest_FlagFirst(st, enabled, compare) ==
    LET flag == setDepthTestNative(st, enabled, Undefined)
    IN  IF Truthy(compare) /\ compare \notin DepthCompare_Less .. DepthCompare_Always
        THEN Throws(flag.st, flag.calls, "Unknown depth comparison.")
        ELSE IF Truthy(compare)
        THEN setDepthTestNative(st, enabled, GL_NEVER + compare)
        ELSE flag

\* setDepthTest(enabled, compare): the switch over the DepthCompare enumeration,
\* entered only when compare is truthy.
setDepthTest(st, enabled, compare) ==
    IF Truthy(compare)
    THEN CASE compare = DepthCompare_Never -> setDepthTestNative(st, enabled, GL_NEVER)
           [] compare = DepthCompare_Less -> setDepthTestNative(st, enabled, GL_LESS)
           [] compare = DepthCompare_Equal -> setDepthTestNative(st, enabled, GL_EQUAL)
           [] compare = DepthCompare_NotEqual -> setDepthTestNative(st, enabled, GL_NOTEQUAL)
           [] compare = DepthCompare_LessEqual -> setDepthTestNative(st, enabled, GL_LEQUAL)
           [] compare = DepthCompare_Greater -> setDepthTestNative(st, enabled, GL_GREATER)
           [] compare = DepthCompare_GreaterEqual -> setDepthTestNative(st, enabled, GL_GEQUAL)
           [] compare = DepthCompare_Always -> setDepthTestNative(st, enabled, GL_ALWAYS)
           [] OTHER -> Throws(st, <<>>, "Unknown depth comparison.")
    ELSE setDepthTestNative(st, enabled, Undefined)

\* A boolean as the argument of a logged context call.
Bit(b) == IF b THEN 1 ELSE 0

\* set depthWrite(value).  The comparison reads _depthWrite.isEnabled, a
\* property no code assigns: it is undefined, and a boolean is never
\* strictly equal to undefined.
depthWriteSet(st, value) ==
    LET isEnabled == Undefined
        differs == IF isEnabled = Undefined THEN TRUE ELSE value # isEnabled
    IN  IF st.gl /\ (~st.depthWrite.isSet \/ differs)
        THEN Returns([st EXCEPT !.depthWrite = Cell(TRUE, value)],
                     <<Call("depthMask", <<Bit(value)>>)>>, "undefined")
        ELSE Returns(st, <<>>, "undefined")

\* setClearColor that compares the colour channels and leaves alpha out.
setClearColor_AlphaIgnored(st, r, g, b, a) ==
    IF r # st.clearColor.r \/ g # st.clearColor.g \/ b # st.clearColor.b
    THEN Returns([st EXCEPT !.clearColor = [r |-> r, g |-> g, b |-> b, a |-> a]],
                 <<Call("clearColor", <<r, g, b, a>>)>>, "undefined")
    ELSE Returns(st, <<>>, "undefined")

setClearColor(st, r, g, b, a) ==
    IF r # st.clearColor.r \/ g # st.clearColor.g
       \/ b # st.clearColor.b \/ a # st.clearColor.a
    THEN Returns([st EXCEPT !.clearColor = [r |-> r, g |-> g, b |-> b, a |-> a]],
                 <<Call("clearColor", <<r, g, b, a>>)>>, "undefined")
    ELSE Returns(st, <<>>, "undefined")

clearDepthSet(st, value) ==
    IF value # st.clearDepth
    THEN Returns([st EXCEPT !.clearDepth = value],
                 <<Call("clearDepth", <<value>>)>>, "undefined")
    ELSE Returns(st, <<>>, "undefined")

clearStencilSet(st, value) ==
    IF value # st.clearStencil
    THEN Returns([st EXCEPT !.clearStencil = value],
                 <<Call("clearStencil", <<value>>)>>, "undefined")
    ELSE Returns(st, <<>>, "undefined")

---------------------------------------------------------------------------
(* Attribute buffers and the vertex attribute slots.                       *)

GL_FLOAT == 5126

\* An AttributeBuffer object with identity id and n descriptors; the
\* descriptor for position i is bound to location i.
AttributeBuffer(id, n) ==
    [ isNull |-> FALSE, id |-> id,
      attributes |-> [i \in 1 .. n |->
                        [location |-> i - 1, size |-> 3, type |-> GL_FLOAT,
                         normalized |-> FALSE, stride |-> 12 * n,
                         offset |-> 12 * (i - 1)]] ]

\* A null attributeBuffer argument.
NoAttributeBuffer == [isNull |-> TRUE, id |-> 0, attributes |-> <<>>]

\* for (let loop = from; loop < to; loop++) gl.<fn>(loop)
SlotCalls(fn, from, to) ==
    IF from < to THEN [k \in 1 .. (to - from) |-> Call(fn, <<from + k - 1>>)] ELSE <<>>

PointerCall(attribute) ==
    Call("vertexAttribPointer",
         <<attribute.location, attribute.size, attribute.type,
           Bit(attribute.normalized), attribute.stride, attribute.offset>>)

\* enableAttributes with the disable loop started one slot too high.
enableAttributes_DisableFromNext(st, attributeBuffer) ==
    IF attributeBuffer.isNull
    THEN Throws(st, <<>>, "No attribute buffer supplied.")
    ELSE LET count == Len(attributeBuffer.attributes)
             oldEnabled == st.attributeCount
             toggles == IF count < oldEnabled
                        THEN SlotCalls("disableVertexAttribArray", count + 1, oldEnabled)
                        ELSE IF count > oldEnabled
                        THEN SlotCalls("enableVertexAttribArray", oldEnabled, count)
                        ELSE <<>>
             pointers == [i \in 1 .. count |-> PointerCall(attributeBuffer.attributes[i])]
         IN  Returns([st EXCEPT !.attributeCount = count,
                                !.attributeBufferId = attributeBuffer.id],
                     toggles \o pointers, "undefined")

\* enableAttributes with the enable loop started at slot 0.
enableAttributes_EnableFromZero(st, attributeBuffer) ==
    IF attributeBuffer.isNull
    THEN Throws(st, <<>>, "No attribute buffer supplied.")
    ELSE LET count == Len(attributeBuffer.attributes)
             oldEnabled == st.attributeCount
             toggles == IF count < oldEnabled
                        THEN SlotCalls("disableVertexAttribArray", count, oldEnabled)
                        ELSE IF count > oldEnabled
                        THEN SlotCalls("enableVertexAttribArray", 0, count)
                        ELSE <<>>
             pointers == [i \in 1 .. count |-> PointerCall(attributeBuffer.attributes[i])]
         IN  Returns([st EXCEPT !.attributeCount = count,
                                !.attributeBufferId = attributeBuffer.id],
                     toggles \o pointers, "undefined")

\* enableAttributes that does nothing when the buffer's id is the cached one.
enableAttributes_SkipSameBuffer(st, attributeBuffer) ==
    IF attributeBuffer.isNull
    THEN Throws(st, <<>>, "No attribute buffer supplied.")
    ELSE IF attributeBuffer.id = st.attributeBufferId
    THEN Returns(st, <<>>, "undefined")
    ELSE LET count == Len(attributeBuffer.attributes)
             oldEnabled == st.attributeCount
             toggles == IF count < oldEnabled
                        THEN SlotCalls("disableVertexAttribArray", count, oldEnabled)
                        ELSE IF count > oldEnabled
                        THEN SlotCalls("enableVertexAttribArray", oldEnabled, count)
                        ELSE <<>>
             pointers == [i \in 1 .. count |-> PointerCall(attributeBuffer.attributes[i])]
         IN  Returns([st EXCEPT !.attributeCount = count,
                                !.attributeBufferId = attributeBuffer.id],
                     toggles \o pointers, "undefined")

enableAttributes(st, attributeBuffer) ==
    IF attributeBuffer.isNull
    THEN Throws(st, <<>>, "No attribute buffer supplied.")
    ELSE LET count == Len(attributeBuffer.attributes)
             oldEnabled == st.attributeCount
             toggles == IF count < oldEnabled
                        THEN SlotCalls("disableVertexAttribArray", count, oldEnabled)
                        ELSE IF count > oldEnabled
                        THEN SlotCalls("enableVertexAttribArray", oldEnabled, count)
                        ELSE <<>>
             pointers == [i \in 1 .. count |-> PointerCall(attributeBuffer.attributes[i])]
         IN  Returns([st EXCEPT !.attributeCount = count,
                                !.attributeBufferId = attributeBuffer.id],
                     toggles \o pointers, "undefined")

---------------------------------------------------------------------------
(* The attribute buffer registry.                                          *)

GL_SHORT == 5122

\* An argument that is meant to be a descriptor list: absent (null or
\* undefined), an array of descriptors, or some other object such as a
\* rendering context.
NoDesc == [kind |-> "absent", list |-> <<>>]
DescList(list) == [kind |-> "list", list |-> list]
ContextObject == [kind |-> "object", list |-> <<>>]

AttributeDesc(size, type, normalized, stride, offset) ==
    [size |-> size, type |-> type, normalized |-> normalized, stride |-> stride,
     offset |-> offset]

\* The module state of the registry: the registered attribute buffers, and
\* the last identity handed out by new AttributeBuffer().
RegistryNew == [registered |-> <<>>, nextId |-> 0]

attributeEqual(a, b) ==
    IF a.size # b.size THEN FALSE
    ELSE IF a.type # b.type THEN FALSE
    ELSE IF a.normalized # b.normalized THEN FALSE
    ELSE a.stride = b.stride

\* AttributeBuffer.definitionEqual(attributes) on buffer: ret is "true" or
\* "false".  An object that is no array has no length to match.
definitionEqual(buffer, attributes) ==
    IF attributes.kind = "absent"
    THEN Throws(buffer, <<>>, "No attributes specified.")
    ELSE IF attributes.kind # "list" \/ Len(attributes.list) # Len(buffer.attributes)
    THEN Returns(buffer, <<>>, "false")
    ELSE IF \A loop \in 1 .. Len(attributes.list) :
                attributeEqual(buffer.attributes[loop], attributes.list[loop])
    THEN Returns(buffer, <<>>, "true")
    ELSE Returns(buffer, <<>>, "false")

\* attributeTypeToWebGL(gl, type); 0 stands for a type it does not know.
attributeTypeToWebGL(type) ==
    CASE type = "float" -> GL_FLOAT
      [] type = "short" -> GL_SHORT
      [] OTHER -> 0

\* fromDesc whose constructor hands out the current identity again.
fromDesc_ReuseId(reg, gl, attributes) ==
    IF attributes.kind = "absent"
    THEN Throws(reg, <<>>, "No attributes supplied.")
    ELSE LET id == IF reg.nextId = 0 THEN 1 ELSE reg.nextId
             reg1 == [reg EXCEPT !.nextId = id]
             buffer == [isNull |-> FALSE, id |-> id,
                        attributes |-> [i \in 1 .. Len(attributes.list) |->
                            [location |-> i - 1, size |-> attributes.list[i].size,
                             type |-> attributes.list[i].type,
                             glType |-> attributeTypeToWebGL(attributes.list[i].type),
                             normalized |-> attributes.list[i].normalized,
                             stride |-> attributes.list[i].stride,
                             offset |-> attributes.list[i].offset]]]
         IN  IF \E i \in 1 .. Len(attributes.list) :
                    attributeTypeToWebGL(attributes.list[i].type) = 0
             THEN Throws(reg1, <<>>, "Unknown attribute type.")
             ELSE Returns(reg1, <<>>, buffer)

\* AttributeBuffer.fromDesc(gl, attributes).  The outcome's st is the
\* registry state (only nextId moves), its ret the buffer made.  The
\* identity is taken by the constructor before the types are looked up.
fromDesc(reg, gl, attributes) ==
    IF attributes.kind = "absent"
    THEN Throws(reg, <<>>, "No attributes supplied.")
    ELSE LET id == reg.nextId + 1
             reg1 == [reg EXCEPT !.nextId = id]
             buffer == [isNull |-> FALSE, id |-> id,
                        attributes |-> [i \in 1 .. Len(attributes.list) |->
                            [location |-> i - 1, size |-> attributes.list[i].size,
                             type |-> attributes.list[i].type,
                             glType |-> attributeTypeToWebGL(attributes.list[i].type),
                             normalized |-> attributes.list[i].normalized,
                             stride |-> attributes.list[i].stride,
                             offset |-> attributes.list[i].offset]]]
         IN  IF \E i \in 1 .. Len(attributes.list) :
                    attributeTypeToWebGL(attributes.list[i].type) = 0
             THEN Throws(reg1, <<>>, "Unknown attribute type.")
             ELSE Returns(reg1, <<>>, buffer)

\* The first registered buffer, from position loop on, whose definition
\* equals desc: its position, or 0 when there is none.
RECURSIVE FirstEqual(_, _, _)
FirstEqual(reg, desc, loop) ==
    IF loop > Len(reg.registered) THEN 0
    ELSE IF definitionEqual(reg.registered[loop], desc).ret = "true" THEN loop
    ELSE FirstEqual(reg, desc, loop + 1)

\* createAttributeBuffer(desc) that hands desc to fromDesc as its attributes.
createAttributeBuffer_DescAsAttributes(reg, desc) ==
    LET found == FirstEqual(reg, desc, 1)
        made == fromDesc(reg, ContextObject, desc)
    IN  IF Len(reg.registered) > 0 /\ desc.kind = "absent"
        THEN Throws(reg, <<>>, "No attributes specified.")
        ELSE IF found # 0
        THEN Returns(reg, <<>>, reg.registered[found])
        ELSE IF made.err # "none"
        THEN Throws(made.st, <<>>, made.err)
        ELSE Returns([made.st EXCEPT !.registered = Append(@, made.ret)], <<>>, made.ret)

\* createAttributeBuffer(desc).  It calls AttributeBuffer.fromDesc(desc): desc
\* arrives as fromDesc's first parameter, gl, and its second, attributes, is
\* undefined.
createAttributeBuffer(reg, desc) ==
    LET found == FirstEqual(reg, desc, 1)
        made == fromDesc(reg, desc, NoDesc)
    IN  IF Len(reg.registered) > 0 /\ desc.kind = "absent"
        THEN Throws(reg, <<>>, "No attributes specified.")
        ELSE IF found # 0
        THEN Returns(reg, <<>>, reg.registered[found])
        ELSE IF made.err # "none"
        THEN Throws(made.st, <<>>, made.err)
        ELSE Returns([made.st EXCEPT !.registered = Append(@, made.ret)], <<>>, made.ret)

---------------------------------------------------------------------------
(* The vertex array binding.                                               *)

\* _bindVertexArrayOES(id): with no extension object the call on it throws.
bindVertexArrayOES(st, id) ==
    IF id # st.vaoId
    THEN IF st.OES_vertex_array_object
         THEN Returns([st EXCEPT !.vaoId = id],
                      <<Call("bindVertexArrayOES", <<id>>)>>, "true")
         ELSE Throws(st, <<>>, "TypeError")
    ELSE Returns(st, <<>>, "false")

\* _bindVertexArray(id): returns false on both paths.
bindVertexArrayNative(st, id) ==
    IF id # st.vaoId
    THEN Returns([st EXCEPT !.vaoId = id], <<Call("bindVertexArray", <<id>>)>>, "false")
    ELSE Returns(st, <<>>, "false")

\* bindVertexArray(id): the method installed by initialize, or the stub.
bindVertexArray(st, id) ==
    CASE st.bindVertexArray = "_bindVertexArrayOES" -> bindVertexArrayOES(st, id)
      [] st.bindVertexArray = "_bindVertexArray" -> bindVertexArrayNative(st, id)
      [] OTHER -> Throws(st, <<>>, "Not implemented.")

\* invalidate that forgets the slot count without disabling the slots.
invalidate_SlotsLeftEnabled(st) ==
    Returns([st EXCEPT !.activeProgram = Null,
                       !.arrayBuffer = Null,
                       !.frameBuffer = Null,
                       !.elementArrayBuffer = Null,
                       !.cullMode.isSet = FALSE,
                       !.cullEnabled.isSet = FALSE,
                       !.depthTest.isSet = FALSE,
                       !.depthCompare.isSet = FALSE,
                       !.depthWrite.isSet = FALSE,
                       !.clearColor = [r |-> INVALID_COLOR_VALUE, g |-> INVALID_COLOR_VALUE,
                                       b |-> INVALID_COLOR_VALUE, a |-> INVALID_COLOR_VALUE],
                       !.clearDepth = INVALID_DEPTH_VALUE,
                       !.clearStencil = INVALID_STENCIL_VALUE,
                       !.attributeCount = 0,
                       !.attributeBufferId = -1,
                       !.textureUnits = [u \in DOMAIN st.textureUnits |->
                                            [type |-> 0, texture |-> Null]]],
            <<>>, "undefined")

invalidate(st) ==
    Returns([st EXCEPT !.activeProgram = Null,
                       !.arrayBuffer = Null,
                       !.frameBuffer = Null,
                       !.elementArrayBuffer = Null,
                       !.cullMode.isSet = FALSE,
                       !.cullEnabled.isSet = FALSE,
                       !.depthTest.isSet = FALSE,
                       !.depthCompare.isSet = FALSE,
                       !.depthWrite.isSet = FALSE,
                       !.clearColor = [r |-> INVALID_COLOR_VALUE, g |-> INVALID_COLOR_VALUE,
                                       b |-> INVALID_COLOR_VALUE, a |-> INVALID_COLOR_VALUE],
                       !.clearDepth = INVALID_DEPTH_VALUE,
                       !.clearStencil = INVALID_STENCIL_VALUE,
                       !.attributeCount = 0,
                       !.attributeBufferId = -1,
                       !.textureUnits = [u \in DOMAIN st.textureUnits |->
                                            [type |-> 0, texture |-> Null]]],
            SlotCalls("disableVertexAttribArray", 1, st.attributeCount),
            "undefined")

---------------------------------------------------------------------------
(* The WebGL context: what the calls issued by the library do to it.       *)

\* A context of kind k before any call: nothing bound, no attribute slot
\* enabled; nextId is the next native object the context hands out.
ContextNew(k) ==
    [ kind |-> k, arrayBuffer |-> Null, elementArrayBuffer |-> Null,
      attribEnabled |-> {}, nextId |-> 11 ]

GlCall(g, c) ==
    CASE c.fn = "bindBuffer" /\ c.a[1] = GL_ARRAY_BUFFER ->
            [g EXCEPT !.arrayBuffer = c.a[2]]
      [] c.fn = "bindBuffer" /\ c.a[1] = GL_ELEMENT_ARRAY_BUFFER ->
            [g EXCEPT !.elementArrayBuffer = c.a[2]]
      [] c.fn = "enableVertexAttribArray" ->
            [g EXCEPT !.attribEnabled = @ \cup {c.a[1]}]
      [] c.fn = "disableVertexAttribArray" ->
            [g EXCEPT !.attribEnabled = @ \ {c.a[1]}]
      [] c.fn \in {"createBuffer", "createVertexArray", "createVertexArrayOES",
                   "createShader", "createProgram", "createTexture"} ->
            [g EXCEPT !.nextId = @ + 1]
      [] OTHER -> g

RECURSIVE GlApply(_, _)
GlApply(g, calls) ==
    IF calls = <<>> THEN g ELSE GlApply(GlCall(g, Head(calls)), Tail(calls))

\* Renderer.supportsVAO after Renderer.initialize on a context of kind k.
supportsVAO(k) == k \in {"webgl1-oes", "webgl2"}

---------------------------------------------------------------------------
(* Buffer wrappers.                                                        *)

\* new BaseBuffer() / new ArrayBuffer()
BaseBufferNew == [gl |-> FALSE, bufferType |-> 0, id |-> Null]

\* BaseBuffer.initializeBuffer(gl, bufferType, drawType); gl is FALSE when no
\* context is supplied, fresh is what gl.createBuffer returns.
\* The outcome's st is the buffer object.
initializeBuffer(b, gl, bufferType, fresh) ==
    IF b.gl
    THEN Throws(b, <<>>, "Buffer has already been initialized.")
    ELSE IF ~gl
    THEN Throws(b, <<>>, "Invalid WebGL context was specified.")
    ELSE Returns([gl |-> TRUE, bufferType |-> bufferType, id |-> fresh],
                 <<Call("createBuffer", <<fresh>>)>>, "this")

\* ArrayBuffer.bind(state): the outcome's st is the state cache.
ArrayBuffer_bind(st, b) ==
    LET r == bindArrayBuffer(st, b.id)
    IN  Returns(r.st, r.calls, "this")

\* BaseBuffer.enable(): binds on the context itself.
BaseBuffer_enable(b) ==
    IF b.gl
    THEN Returns(b, <<Call("bindBuffer", <<b.bufferType, b.id>>)>>, "undefined")
    ELSE Throws(b, <<>>, "TypeError")

\* BaseBuffer._bufferData(data): enable(), then the upload.
BaseBuffer_bufferData(b) ==
    IF ~b.gl
    THEN Throws(b, <<>>, "BaseBuffer._bufferData - No WebGL context was available.")
    ELSE Returns(b, BaseBuffer_enable(b).calls \o <<Call("bufferData", <<b.bufferType>>)>>,
                 "undefined")

\* new GeometryBuffer()
GeometryBufferNew == [vao |-> Null, renderer |-> FALSE, attributeBuffer |-> 0]

\* GeometryBuffer.initialize that sets the geometry up before it looks at its
\* arguments.
GeometryBuffer_initialize_CheckLast(g, b, reg, renderer, attributes, k, fresh) ==
    LET g1 == [g EXCEPT !.renderer = TRUE]
        ib == initializeBuffer(b, TRUE, GL_ARRAY_BUFFER, fresh)
    IN  IF ib.err # "none"
        THEN Throws(<<g1, b, reg>>, <<>>, ib.err)
        ELSE IF ~renderer
        THEN Throws(<<g1, ib.st, reg>>, ib.calls, "Renderer must be supplied")
        ELSE IF attributes.kind = "absent"
        THEN Throws(<<g1, ib.st, reg>>, ib.calls, "Attribute buffer must be supplied")
        ELSE Throws(<<g1, ib.st, reg>>, ib.calls, "No attributes supplied.")

\* GeometryBuffer.initialize(renderer, attributes, data, drawType); renderer
\* says whether one is supplied.  b is the geometry's arrayBuffer, reg the
\* attribute buffer registry, k the context kind of the renderer.  The call
\* createAttributeBuffer(renderer.context, attributes) hands the context to
\* createAttributeBuffer as its desc.
\* The outcome's st is <<geometry, arrayBuffer, registry>>.  On a renderer that
\* supports vertex array objects the read of renderer.state.OES_vertex_array_object
\* (a property WebGLState does not have) makes .bindVertexArray throw.
GeometryBuffer_initialize(g, b, reg, renderer, attributes, k, fresh) ==
    LET g1 == [g EXCEPT !.renderer = TRUE]
        ib == initializeBuffer(b, TRUE, GL_ARRAY_BUFFER, fresh)
        cab == createAttributeBuffer(reg, ContextObject)
        g2 == [g1 EXCEPT !.attributeBuffer = cab.ret.id]
    IN  IF ~renderer
        THEN Throws(<<g, b, reg>>, <<>>, "Renderer must be supplied")
        ELSE IF attributes.kind = "absent"
        THEN Throws(<<g, b, reg>>, <<>>, "Attribute buffer must be supplied")
        ELSE IF ib.err # "none"
        THEN Throws(<<g1, b, reg>>, <<>>, ib.err)
        ELSE IF cab.err # "none"
        THEN Throws(<<g1, ib.st, cab.st>>, ib.calls, cab.err)
        ELSE IF supportsVAO(k)
        THEN LET create == IF k = "webgl2" THEN "createVertexArray"
                                            ELSE "createVertexArrayOES"
             IN  Throws(<<[g2 EXCEPT !.vao = fresh + 1], ib.st, cab.st>>,
                        ib.calls \o <<Call(create, <<fresh + 1>>)>>, "TypeError")
        ELSE Returns(<<g2, ib.st, cab.st>>,
                     ib.calls \o <<Call("bindBuffer", <<GL_ARRAY_BUFFER, ib.st.id>>),
                                   Call("bufferData", <<GL_ARRAY_BUFFER>>)>>,
                     "this")

---------------------------------------------------------------------------
(* Resource handles: BaseBuffer.dispose, Shader, Program, BaseTexture.     *)

GL_FRAGMENT_SHADER == 35632
GL_VERTEX_SHADER == 35633

\* BaseBuffer.dispose()
BaseBuffer_dispose(b) ==
    IF b.gl
    THEN Returns([b EXCEPT !.id = Null, !.gl = FALSE],
                 <<Call("deleteBuffer", <<b.id>>)>>, "undefined")
    ELSE Returns(b, <<>>, "undefined")

\* new Shader()
ShaderNew == [gl |-> FALSE, id |-> Null, type |-> 0]

\* Shader.initialize that keeps the new shader on the handle only when it
\* compiled.
Shader_initialize_KeepOnSuccess(s, gl, type, compiles, fresh) ==
    IF ~gl
    THEN Throws(s, <<>>, "Shader.initialize - No WebGL context was specified.")
    ELSE IF s.gl
    THEN Throws(s, <<>>, "Shader.initialize - Shader has already been initialized.")
    ELSE LET s1 == [gl |-> TRUE, id |-> fresh, type |-> type]
             calls == <<Call("createShader", <<fresh, type>>),
                        Call("shaderSource", <<fresh>>),
                        Call("compileShader", <<fresh>>)>>
         IN  IF compiles
             THEN Returns(s1, calls, "undefined")
             ELSE Throws(s, calls, "Shader.initialize - Failed to compile shader.")

\* Shader.initialize(gl, type, source); compiles is what the COMPILE_STATUS
\* query answers, fresh what gl.createShader returns.
Shader_initialize(s, gl, type, compiles, fresh) ==
    IF ~gl
    THEN Throws(s, <<>>, "Shader.initialize - No WebGL context was specified.")
    ELSE IF s.gl
    THEN Throws(s, <<>>, "Shader.initialize - Shader has already been initialized.")
    ELSE LET s1 == [gl |-> TRUE, id |-> fresh, type |-> type]
             calls == <<Call("createShader", <<fresh, type>>),
                        Call("shaderSource", <<fresh>>),
                        Call("compileShader", <<fresh>>)>>
         IN  IF compiles
             THEN Returns(s1, calls, "undefined")
             ELSE Throws(s1, calls, "Shader.initialize - Failed to compile shader.")

\* Shader.dispose() that deletes the shader and keeps the handle as it was.
Shader_dispose_KeepsHandle(s) ==
    IF s.gl
    THEN Returns(s, <<Call("deleteShader", <<s.id>>)>>, "undefined")
    ELSE Returns(s, <<>>, "undefined")

\* Shader.dispose()
Shader_dispose(s) ==
    IF s.gl
    THEN Returns(ShaderNew, <<Call("deleteShader", <<s.id>>)>>, "undefined")
    ELSE Returns(s, <<>>, "undefined")

\* new Program()
ProgramNew == [gl |-> FALSE, id |-> Null, vertexShader |-> ShaderNew,
               fragmentShader |-> ShaderNew]

\* Program.dispose that leaves the vertex shader alone.
Program_dispose_FragmentShaderOnly(p) ==
    IF p.gl
    THEN LET fs == Shader_dispose(p.fragmentShader)
         IN  Returns([gl |-> FALSE, id |-> Null, vertexShader |-> p.vertexShader,
                      fragmentShader |-> fs.st],
                     <<Call("deleteProgram", <<p.id>>)>> \o fs.calls,
                     "undefined")
    ELSE Returns(p, <<>>, "undefined")

\* Program.dispose()
Program_dispose(p) ==
    IF p.gl
    THEN LET fs == Shader_dispose(p.fragmentShader)
             vs == Shader_dispose(p.vertexShader)
         IN  Returns([gl |-> FALSE, id |-> Null, vertexShader |-> vs.st,
                      fragmentShader |-> fs.st],
                     <<Call("deleteProgram", <<p.id>>)>> \o fs.calls \o vs.calls,
                     "undefined")
    ELSE Returns(p, <<>>, "undefined")

\* Program.initialize(gl, vertexShaderSource, fragmentShaderSource).  in.gl,
\* in.vertex and in.fragment say which arguments are supplied; in.vertexCompiles,
\* in.fragmentCompiles and in.links are what the status queries answer.
Program_initialize(p, in, fresh) ==
    IF ~in.gl
    THEN Throws(p, <<>>, "Program.initialize - No WebGL context was specified.")
    ELSE IF p.gl
    THEN Throws(p, <<>>, "Program.initialize - Program has already been initialized.")
    ELSE LET p1 == [p EXCEPT !.id = fresh, !.gl = TRUE]
             c1 == <<Call("createProgram", <<fresh>>)>>
             vs == IF in.vertex
                   THEN Shader_initialize(p1.vertexShader, TRUE, GL_VERTEX_SHADER,
                                          in.vertexCompiles, fresh + 1)
                   ELSE Returns(p1.vertexShader, <<>>, "undefined")
             p2 == [p1 EXCEPT !.vertexShader = vs.st]
             c2 == c1 \o vs.calls \o
                   (IF in.vertex /\ vs.err = "none"
                    THEN <<Call("attachShader", <<fresh, vs.st.id>>)>> ELSE <<>>)
             fsFresh == fresh + 1 + Len(CallsTo(vs.calls, "createShader"))
             fs == IF in.fragment
                   THEN Shader_initialize(p2.fragmentShader, TRUE, GL_FRAGMENT_SHADER,
                                          in.fragmentCompiles, fsFresh)
                   ELSE Returns(p2.fragmentShader, <<>>, "undefined")
             p3 == [p2 EXCEPT !.fragmentShader = fs.st]
             c3 == c2 \o fs.calls \o
                   (IF in.fragment /\ fs.err = "none"
                    THEN <<Call("attachShader", <<fresh, fs.st.id>>)>> ELSE <<>>)
             c4 == c3 \o <<Call("linkProgram", <<fresh>>)>>
             d == Program_dispose(p3)
         IN  IF vs.err # "none" THEN Throws(p2, c2, vs.err)
             ELSE IF fs.err # "none" THEN Throws(p3, c3, fs.err)
             ELSE IF ~in.links THEN Returns(d.st, c4 \o d.calls, "undefined")
             ELSE Returns(p3, c4, "undefined")

\* new BaseTexture()
BaseTextureNew == [gl |-> FALSE, id |-> Null]

\* BaseTexture.initialize(gl): with no context the call on it throws; the
\* context is not kept on the handle.
BaseTexture_initialize(t, gl, fresh) ==
    IF Truthy(t.id)
    THEN Throws(t, <<>>, "Texture has already been initialized.")
    ELSE IF ~gl
    THEN Throws(t, <<>>, "TypeError")
    ELSE Returns([t EXCEPT !.id = fresh], <<Call("createTexture", <<fresh>>)>>, "this")

\* BaseTexture.dispose(): with an id held and no context kept, the call on
\* the context throws.
BaseTexture_dispose(t) ==
    IF t.id # Null
    THEN IF t.gl
         THEN Returns(BaseTextureNew, <<Call("deleteTexture", <<t.id>>)>>, "undefined")
         ELSE Throws(t, <<>>, "TypeError")
    ELSE Returns(t, <<>>, "undefined")

\* GeometryBuffer.dispose() on a geometry of a renderer of kind k; b is its
\* arrayBuffer.  The outcome's st is <<geometry, arrayBuffer>>.
GeometryBuffer_dispose(g, b, k) ==
    LET deleteVertexArray ==
            CASE k = "webgl2" -> <<Call("deleteVertexArray", <<g.vao>>)>>
              [] k = "webgl1-oes" -> <<Call("deleteVertexArrayOES", <<g.vao>>)>>
              [] OTHER -> <<>>
        d == BaseBuffer_dispose(b)
    IN  IF Truthy(g.vao) /\ ~supportsVAO(k)
        THEN Throws(<<g, b>>, <<>>, "Not implemented")
        ELSE Returns(<<[g EXCEPT !.vao = Null, !.renderer = FALSE], d.st>>,
                     (IF Truthy(g.vao) THEN deleteVertexArray ELSE <<>>) \o d.calls,
                     "undefined")

\* BaseBuffer.bufferData(data): the upload, without a bind.
BaseBuffer_bufferDataUpload(b) ==
    IF ~b.gl
    THEN Throws(b, <<>>, "No WebGL context available.")
    ELSE Returns(b, <<Call("bufferData", <<b.bufferType>>)>>, "undefined")

\* GeometryBuffer.bufferData(data): binds the geometry's vertex array object
\* through the state cache st, whatever the renderer supports, then uploads.
\* The outcome's st is the state cache.
GeometryBuffer_bufferData(g, b, st) ==
    LET bv == bindVertexArray(st, g.vao)
        up == BaseBuffer_bufferDataUpload(b)
    IN  IF ~g.renderer THEN Throws(st, <<>>, "TypeError")
        ELSE IF bv.err # "none" THEN Throws(st, <<>>, bv.err)
        ELSE IF up.err # "none" THEN Throws(bv.st, bv.calls, up.err)
        ELSE Returns(bv.st, bv.calls \o up.calls, "undefined")

\* The AttributeBuffer object a geometry buffer refers to: a registered
\* buffer, or null.
AttributeBufferOf(g, reg) ==
    IF \E k \in 1 .. Len(reg.registered) : reg.registered[k].id = g.attributeBuffer
    THEN reg.registered[CHOOSE k \in 1 .. Len(reg.registered) :
                            reg.registered[k].id = g.attributeBuffer]
    ELSE NoAttributeBuffer

\* WebGLState.bindGeometryBuffer(geometryBuffer): g is the geometry buffer,
\* b its arrayBuffer.
bindGeometryBuffer(st, g, b, reg) ==
    IF Truthy(g.vao)
    THEN LET bv == bindVertexArray(st, g.vao)
         IN  IF bv.err # "none" THEN Throws(st, <<>>, bv.err)
             ELSE Returns(bv.st, bv.calls, "undefined")
    ELSE LET ba == bindArrayBuffer(st, b.id)
             ea == enableAttributes(ba.st, AttributeBufferOf(g, reg))
         IN  IF ea.err # "none" THEN Throws(ba.st, ba.calls, ea.err)
             ELSE Returns(ea.st, ba.calls \o ea.calls, "undefined")

\* The GeometryBuffer class of geometry_buffer.js, which takes a ready
\* AttributeBuffer and keeps renderer.context, not the renderer, in its
\* renderer field ("context"; "null" before initialize and after dispose).
geometry_buffer_New ==
    [vao |-> Null, renderer |-> "null", arrayBuffer |-> BaseBufferNew,
     attributeBuffer |-> Null, valid |-> FALSE]

\* Renderer.createVertexArray() on a renderer of kind k: the method that
\* Renderer.initialize installed, or the stub.  ret is the new object.
Renderer_createVertexArray(k, fresh) ==
    CASE k = "webgl2" -> Returns(k, <<Call("createVertexArray", <<fresh>>)>>, fresh)
      [] k = "webgl1-oes" -> Returns(k, <<Call("createVertexArrayOES", <<fresh>>)>>, fresh)
      [] OTHER -> Throws(k, <<>>, "Not implemented")

\* GeometryBuffer.initialize(renderer, attributeBuffer, drawType) of
\* geometry_buffer.js, with _configureBuffer(renderer.state).  The outcome's
\* st is <<geometry, state cache>>.  initialize never stores its
\* attributeBuffer argument: _configureBuffer passes this.attributeBuffer,
\* still null, to enableAttributes.
geometry_buffer_initialize(g, st, renderer, attributeBuffer, k, fresh) ==
    LET g1 == [g EXCEPT !.renderer = "context"]
        cv == Renderer_createVertexArray(k, fresh)
        g2 == [g1 EXCEPT !.vao = cv.ret]
        ib == initializeBuffer(g2.arrayBuffer, TRUE, GL_ARRAY_BUFFER, fresh + 1)
        g3 == [g2 EXCEPT !.arrayBuffer = ib.st]
        c1 == cv.calls \o ib.calls
        bv == bindVertexArray(st, g3.vao)
        ba == bindArrayBuffer(bv.st, g3.arrayBuffer.id)
        ea == enableAttributes(ba.st, IF g3.attributeBuffer = Null
                                      THEN NoAttributeBuffer ELSE attributeBuffer)
    IN  IF ~renderer
        THEN Throws(<<g, st>>, <<>>, "Renderer must be supplied")
        ELSE IF attributeBuffer.isNull
        THEN Throws(<<g, st>>, <<>>, "Attribute buffer must be supplied")
        ELSE IF cv.err # "none" THEN Throws(<<g1, st>>, <<>>, cv.err)
        ELSE IF ib.err # "none" THEN Throws(<<g2, st>>, cv.calls, ib.err)
        ELSE IF bv.err # "none" THEN Throws(<<g3, st>>, c1, bv.err)
        ELSE IF ea.err # "none" THEN Throws(<<g3, ba.st>>, c1 \o bv.calls \o ba.calls, ea.err)
        ELSE Returns(<<[g3 EXCEPT !.valid = TRUE], ea.st>>,
                     c1 \o bv.calls \o ba.calls \o ea.calls, "this")

\* GeometryBuffer.dispose() of geometry_buffer.js on a context of kind k.
\* this.renderer is the rendering context: a WebGL 2 context has
\* deleteVertexArray, on a WebGL 1 context the call throws.
geometry_buffer_dispose(g, k) ==
    LET d == BaseBuffer_dispose(g.arrayBuffer)
        g1 == [g EXCEPT !.vao = Null, !.arrayBuffer = d.st, !.renderer = "null",
                        !.attributeBuffer = Null]
    IN  IF Truthy(g.vao)
        THEN IF g.renderer = "context" /\ k = "webgl2"
             THEN Returns(g1, <<Call("deleteVertexArray", <<g.vao>>)>> \o d.calls,
                          "undefined")
             ELSE Throws(g, <<>>, "TypeError")
        ELSE Returns(g1, d.calls, "undefined")

\* Renderer.dispose(): its first statement calls this._state.dispose(), a
\* method WebGLState does not define.
Renderer_dispose(st) == Throws(st, <<>>, "TypeError")

---------------------------------------------------------------------------
(* QuadIndexBuffer.                                                        *)

DEFAULT_CAPACITY == 1024

\* A value stored in an element of a Uint16Array.
Uint16(v) == v % 65536

\* The loop of _generateIndices from the iteration with the given loop and
\* baseIndex on; raw[p + 1] is element p of _rawBuffer.
RECURSIVE GenerateFrom(_, _, _, _)
GenerateFrom(raw, loop, baseIndex, capacity) ==
    IF loop < capacity
    THEN GenerateFrom([raw EXCEPT ![loop + 1] = Uint16(baseIndex + 0),
                                  ![loop + 2] = Uint16(baseIndex + 1),
                                  ![loop + 3] = Uint16(baseIndex + 2),
                                  ![loop + 4] = Uint16(baseIndex + 1),
                                  ![loop + 5] = Uint16(baseIndex + 3),
                                  ![loop + 6] = Uint16(baseIndex + 2)],
                      loop + 6, baseIndex + 4, capacity)
    ELSE raw

\* QuadIndexBuffer._generateIndices() on a buffer of the given capacity.
generateIndices(raw, capacity) == GenerateFrom(raw, 0, 0, capacity)

\* new QuadIndexBuffer(capacity); Undefined is an omitted capacity.  The new
\* Uint16Array is all zero before the indices are generated.
QuadIndexBuffer_New(capacity) ==
    LET c == IF capacity = Undefined THEN DEFAULT_CAPACITY ELSE capacity
    IN  [gl |-> FALSE, bufferType |-> 0, id |-> Null, capacity |-> c,
         rawBuffer |-> generateIndices([p \in 1 .. c * 6 |-> 0], c)]

---------------------------------------------------------------------------
(* Arguments the operations are exercised with.                            *)

ProgramIds == {Null, 1, 2}
BufferIds == {Null, 1, 2}
FrameBufferIds == {Null, 1, 2}
TextureIds == {Null, 1, 2}
VertexArrayIds == {Null, 1, 2}
\* Units below, inside, at the end of and beyond the unit table.
TextureUnitArgs == {-1, 0, 3, 31, 32, 33}
\* An omitted mode, a zero, gl.BACK and the native mode one below it (gl.FRONT).
CullModeArgs == {Undefined, 0, GL_BACK - 1, GL_BACK}
\* The eight DepthCompare values, an omitted compare and an unknown one.
DepthCompareArgs == {Undefined} \cup (0 .. 8)
NativeCompareArgs == {Undefined, GL_LESS, GL_ALWAYS}
ClearColors == {<<INVALID_COLOR_VALUE, INVALID_COLOR_VALUE, INVALID_COLOR_VALUE,
                  INVALID_COLOR_VALUE>>, <<0, 0, 0, 1>>, <<0, 0, 0, 0>>}
ClearDepths == {INVALID_DEPTH_VALUE, 0, 1}
ClearStencils == {INVALID_STENCIL_VALUE, 0, 1}
\* Attribute buffers of 0, 1, 2 and 5 descriptors, and a null argument.
AttributeBuffers == {NoAttributeBuffer, AttributeBuffer(1, 0), AttributeBuffer(2, 1),
                     AttributeBuffer(3, 2), AttributeBuffer(4, 5)}
BufferHandles == {"vb", "geom"}
\* What GeometryBuffer.initialize is given as attributes: nothing, or a list.
GeometryAttributes ==
    {NoDesc, DescList(<<AttributeDesc(3, "float", FALSE, 12, 0)>>)}
\* Descriptor lists: one descriptor; the same with another offset; one that
\* differs in size, in type, in normalized, in stride; two descriptors; a type
\* the library does not know; the empty list; no list.
DescLists ==
    LET d == AttributeDesc(3, "float", FALSE, 12, 0)
    IN  {DescList(<<d>>),
         DescList(<<[d EXCEPT !.offset = 4]>>),
         DescList(<<[d EXCEPT !.size = 2]>>),
         DescList(<<[d EXCEPT !.type = "short"]>>),
         DescList(<<[d EXCEPT !.normalized = TRUE]>>),
         DescList(<<[d EXCEPT !.stride = 16]>>),
         DescList(<<d, d>>),
         DescList(<<[d EXCEPT !.type = "double"]>>),
         DescList(<<>>),
         NoDesc}
\* The capacities QuadIndexBuffer is constructed with.
Capacities == 0 .. MaxQuads
\* What Program.initialize is given and what the context answers: no context;
\* both shaders, all well; a link failure; a vertex or a fragment shader that
\* does not compile; no shader sources.
ProgramInputs ==
    LET In(gl, v, f, vc, fc, l) ==
            [gl |-> gl, vertex |-> v, fragment |-> f, vertexCompiles |-> vc,
             fragmentCompiles |-> fc, links |-> l]
    IN  {In(FALSE, TRUE, TRUE, TRUE, TRUE, TRUE),
         In(TRUE, TRUE, TRUE, TRUE, TRUE, TRUE),
         In(TRUE, TRUE, TRUE, TRUE, TRUE, FALSE),
         In(TRUE, TRUE, TRUE, FALSE, TRUE, TRUE),
         In(TRUE, TRUE, TRUE, TRUE, FALSE, TRUE),
         In(TRUE, FALSE, FALSE, TRUE, TRUE, TRUE)}

---------------------------------------------------------------------------
(* Actions: one per library operation.                                     *)

\* A trace entry: the operation, its arguments, the cache it found, the context
\* calls it issued, and how it ended.
Entry(op, args, r) ==
    [op |-> op, args |-> args, before |-> state,
     calls |-> r.calls, ret |-> r.ret, err |-> r.err]

\* An operation of the state cache.
StateOp(op, args, r) ==
    /\ state' = r.st
    /\ glctx' = GlApply(glctx, r.calls)
    /\ trace' = Append(trace, Entry(op, args, r))
    /\ UNCHANGED <<bufs, geom, res, registry>>

UseProgram(ids) ==
    \E id \in ids : StateOp("useProgram", <<id>>, useProgram(state, id))

BindArrayBuffer(ids) ==
    \E id \in ids : StateOp("bindArrayBuffer", <<id>>, bindArrayBuffer(state, id))

BindElementArrayBuffer(ids) ==
    \E id \in ids :
        StateOp("bindElementArrayBuffer", <<id>>, bindElementArrayBuffer(state, id))

BindFrameBuffer(ids) ==
    \E id \in ids : StateOp("bindFrameBuffer", <<id>>, bindFrameBuffer(state, id))

BindTexture2D(units, ids) ==
    \E u \in units, id \in ids :
        StateOp("bindTexture2D", <<u, id>>, bindTexture2D(state, u, id))

SetCullMode(enableds, modes) ==
    \E enabled \in enableds, mode \in modes :
        StateOp("setCullMode", <<Bit(enabled), mode>>, setCullMode(state, enabled, mode))

SetDepthTestNative(enableds, compares) ==
    \E enabled \in enableds, compare \in compares :
        StateOp("setDepthTestNative", <<Bit(enabled), compare>>,
                setDepthTestNative(state, enabled, compare))

SetDepthTest(enableds, compares) ==
    \E enabled \in enableds, compare \in compares :
        StateOp("setDepthTest", <<Bit(enabled), compare>>,
                setDepthTest(state, enabled, compare))

DepthWrite ==
    \E value \in BOOLEAN : StateOp("depthWrite", <<Bit(value)>>, depthWriteSet(state, value))

SetClearColor(colors) ==
    \E c \in colors :
        StateOp("setClearColor", c, setClearColor(state, c[1], c[2], c[3], c[4]))

ClearDepth(values) ==
    \E v \in values : StateOp("clearDepth", <<v>>, clearDepthSet(state, v))

ClearStencil(values) ==
    \E v \in values : StateOp("clearStencil", <<v>>, clearStencilSet(state, v))

EnableAttributes(abs) ==
    \E ab \in abs :
        StateOp("enableAttributes", <<ab.id, Len(ab.attributes)>>,
                enableAttributes(state, ab))

BindVertexArray(ids) ==
    \E id \in ids : StateOp("bindVertexArray", <<id>>, bindVertexArray(state, id))

Invalidate == StateOp("invalidate", <<>>, invalidate(state))

\* ArrayBuffer.initialize(gl, drawType) on wrapper h.
ArrayBufferInitialize ==
    \E h \in BufferHandles :
        LET r == initializeBuffer(bufs[h], TRUE, GL_ARRAY_BUFFER, glctx.nextId)
        IN  /\ bufs' = [bufs EXCEPT ![h] = r.st]
            /\ glctx' = GlApply(glctx, r.calls)
            /\ trace' = Append(trace, Entry("ArrayBuffer.initialize", <<h>>, r))
            /\ UNCHANGED <<state, geom, res, registry>>

\* ArrayBuffer.bind(state) on wrapper h.
ArrayBufferBind ==
    \E h \in BufferHandles :
        LET r == ArrayBuffer_bind(state, bufs[h])
        IN  /\ state' = r.st
            /\ glctx' = GlApply(glctx, r.calls)
            /\ trace' = Append(trace, Entry("ArrayBuffer.bind", <<h>>, r))
            /\ UNCHANGED <<bufs, geom, res, registry>>

\* BaseBuffer._bufferData(data) on wrapper h.
BufferData ==
    \E h \in BufferHandles :
        LET r == BaseBuffer_bufferData(bufs[h])
        IN  /\ glctx' = GlApply(glctx, r.calls)
            /\ trace' = Append(trace, Entry("BaseBuffer._bufferData", <<h>>, r))
            /\ UNCHANGED <<state, bufs, geom, res, registry>>

\* A trace entry of an operation on a resource handle: the handle before and
\* after it, the context calls it issued, and how it ended.
HandleEntry(op, args, before, r) ==
    [op |-> op, args |-> args, before |-> before, after |-> r.st,
     calls |-> r.calls, ret |-> r.ret, err |-> r.err]

\* GeometryBuffer.initialize(renderer, attributes, data, drawType).
GeometryBufferInitialize ==
    \E renderer \in BOOLEAN, attributes \in GeometryAttributes :
        LET r == GeometryBuffer_initialize(geom, bufs["geom"], registry, renderer,
                                           attributes, glctx.kind, glctx.nextId)
        IN  /\ geom' = r.st[1]
            /\ bufs' = [bufs EXCEPT !["geom"] = r.st[2]]
            /\ registry' = r.st[3]
            /\ glctx' = GlApply(glctx, r.calls)
            /\ trace' = Append(trace, HandleEntry("GeometryBuffer.initialize",
                                                  <<Bit(renderer), attributes>>,
                                                  <<geom, bufs["geom"], registry>>, r))
            /\ UNCHANGED <<state, res>>

\* An operation r on handle h of res.
HandleOp(op, args, h, r) ==
    /\ res' = [res EXCEPT ![h] = r.st]
    /\ glctx' = GlApply(glctx, r.calls)
    /\ trace' = Append(trace, HandleEntry(op, args, res[h], r))
    /\ UNCHANGED <<state, bufs, geom, registry>>

\* BaseBuffer.initializeBuffer(gl, gl.ARRAY_BUFFER, drawType) on wrapper vb.
BufferInitialize ==
    \E gl \in BOOLEAN :
        LET r == initializeBuffer(bufs["vb"], gl, GL_ARRAY_BUFFER, glctx.nextId)
        IN  /\ bufs' = [bufs EXCEPT !["vb"] = r.st]
            /\ glctx' = GlApply(glctx, r.calls)
            /\ trace' = Append(trace, HandleEntry("BaseBuffer.initializeBuffer",
                                                  <<Bit(gl)>>, bufs["vb"], r))
            /\ UNCHANGED <<state, geom, res, registry>>

\* BaseBuffer.dispose() on wrapper vb.
BufferDispose ==
    LET r == BaseBuffer_dispose(bufs["vb"])
    IN  /\ bufs' = [bufs EXCEPT !["vb"] = r.st]
        /\ glctx' = GlApply(glctx, r.calls)
        /\ trace' = Append(trace, HandleEntry("BaseBuffer.dispose", <<>>, bufs["vb"], r))
        /\ UNCHANGED <<state, geom, res, registry>>

ShaderInitialize ==
    \E gl \in BOOLEAN, compiles \in BOOLEAN :
        HandleOp("Shader.initialize", <<Bit(gl), Bit(compiles)>>, "shader",
                 Shader_initialize(res.shader, gl, GL_VERTEX_SHADER, compiles,
                                   glctx.nextId))

ShaderDispose == HandleOp("Shader.dispose", <<>>, "shader", Shader_dispose(res.shader))

ProgramInitialize ==
    \E in \in ProgramInputs :
        HandleOp("Program.initialize",
                 <<Bit(in.gl), Bit(in.vertex), Bit(in.fragment), Bit(in.vertexCompiles),
                   Bit(in.fragmentCompiles), Bit(in.links)>>,
                 "program", Program_initialize(res.program, in, glctx.nextId))

ProgramDispose ==
    HandleOp("Program.dispose", <<>>, "program", Program_dispose(res.program))

TextureInitialize ==
    \E gl \in BOOLEAN :
        HandleOp("BaseTexture.initialize", <<Bit(gl)>>, "texture",
                 BaseTexture_initialize(res.texture, gl, glctx.nextId))

TextureDispose ==
    HandleOp("BaseTexture.dispose", <<>>, "texture", BaseTexture_dispose(res.texture))

\* GeometryBuffer.dispose().
GeometryBufferDispose ==
    LET r == GeometryBuffer_dispose(geom, bufs["geom"], glctx.kind)
    IN  /\ geom' = r.st[1]
        /\ bufs' = [bufs EXCEPT !["geom"] = r.st[2]]
        /\ glctx' = GlApply(glctx, r.calls)
        /\ trace' = Append(trace, HandleEntry("GeometryBuffer.dispose", <<>>,
                                              <<geom, bufs["geom"]>>, r))
        /\ UNCHANGED <<state, res, registry>>

\* GeometryBuffer.bufferData(data).
GeometryBufferData ==
    LET r == GeometryBuffer_bufferData(geom, bufs["geom"], state)
    IN  /\ state' = r.st
        /\ glctx' = GlApply(glctx, r.calls)
        /\ trace' = Append(trace, HandleEntry("GeometryBuffer.bufferData", <<>>,
                                              <<geom, bufs["geom"], state>>, r))
        /\ UNCHANGED <<bufs, geom, res, registry>>

\* WebGLState.bindGeometryBuffer(geometryBuffer) with the application's
\* geometry buffer.
BindGeometryBuffer ==
    LET r == bindGeometryBuffer(state, geom, bufs["geom"], registry)
    IN  /\ state' = r.st
        /\ glctx' = GlApply(glctx, r.calls)
        /\ trace' = Append(trace, HandleEntry("bindGeometryBuffer", <<>>,
                                              <<geom, bufs["geom"], state>>, r))
        /\ UNCHANGED <<bufs, geom, res, registry>>

\* WebGLState.bindGeometryBuffer(geometryBuffer) with the application's
\* geometry buffer of geometry_buffer.js.
BindGeometryBufferFile ==
    LET r == bindGeometryBuffer(state, res.geometry, res.geometry.arrayBuffer, registry)
    IN  /\ state' = r.st
        /\ glctx' = GlApply(glctx, r.calls)
        /\ trace' = Append(trace, HandleEntry("bindGeometryBuffer(geometry_buffer)", <<>>,
                                              <<res.geometry, res.geometry.arrayBuffer,
                                                state>>, r))
        /\ UNCHANGED <<bufs, geom, res, registry>>

\* GeometryBuffer.initialize(renderer, attributeBuffer, drawType) of
\* geometry_buffer.js.
GeometryBufferFileInitialize ==
    \E renderer \in BOOLEAN, ab \in {NoAttributeBuffer, AttributeBuffer(3, 2)} :
        LET r == geometry_buffer_initialize(res.geometry, state, renderer, ab,
                                            glctx.kind, glctx.nextId)
        IN  /\ res' = [res EXCEPT !.geometry = r.st[1]]
            /\ state' = r.st[2]
            /\ glctx' = GlApply(glctx, r.calls)
            /\ trace' = Append(trace, HandleEntry("geometry_buffer.initialize",
                                                  <<Bit(renderer), ab.id>>,
                                                  <<res.geometry, state>>, r))
            /\ UNCHANGED <<bufs, geom, registry>>

\* GeometryBuffer.dispose() of geometry_buffer.js.
GeometryBufferFileDispose ==
    HandleOp("geometry_buffer.dispose", <<>>, "geometry",
             geometry_buffer_dispose(res.geometry, glctx.kind))

\* Renderer.dispose().
RendererDispose ==
    LET r == Renderer_dispose(state)
    IN  /\ trace' = Append(trace, HandleEntry("Renderer.dispose", <<>>, state, r))
        /\ UNCHANGED <<state, glctx, bufs, geom, res, registry>>

\* new QuadIndexBuffer(capacity) by the application; the trace keeps the
\* object constructed.
QuadIndexBufferConstruct(capacities) ==
    \E capacity \in capacities :
        /\ trace' = Append(trace, HandleEntry("new QuadIndexBuffer", <<capacity>>, Null,
                                              Returns(QuadIndexBuffer_New(capacity),
                                                      <<>>, "this")))
        /\ UNCHANGED <<state, glctx, bufs, geom, res, registry>>

\* An operation r of the attributes module.
RegistryOp(op, args, r) ==
    /\ registry' = r.st
    /\ trace' = Append(trace, HandleEntry(op, args, registry, r))
    /\ UNCHANGED <<state, glctx, bufs, geom, res>>

\* createAttributeBuffer(desc).
CreateAttributeBuffer(descs) ==
    \E desc \in descs :
        RegistryOp("createAttributeBuffer", <<desc>>, createAttributeBuffer(registry, desc))

\* AttributeBuffer.fromDesc(gl, attributes) called by the application.
AttributeBufferFromDesc(descs) ==
    \E desc \in descs :
        RegistryOp("AttributeBuffer.fromDesc", <<desc>>,
                   fromDesc(registry, ContextObject, desc))

---------------------------------------------------------------------------
(* Specifications.                                                         *)

\* After new WebGLState(), initialize(gl) on a fresh context, and the
\* construction of the application's wrappers.
Init ==
    \E k \in ContextKinds :
        /\ state = initialize(WebGLStateNew, k)
        /\ glctx = ContextNew(k)
        /\ bufs = [h \in BufferHandles |-> BaseBufferNew]
        /\ geom = GeometryBufferNew
        /\ res = [shader |-> ShaderNew, program |-> ProgramNew, texture |-> BaseTextureNew,
                  geometry |-> geometry_buffer_New]
        /\ registry = RegistryNew
        /\ trace = <<>>

\* Sequences of useProgram calls.
NextProgram == Len(trace) < MaxProgramOps /\ UseProgram(ProgramIds)

SpecProgram == Init /\ [][NextProgram]_vars

\* The texture units.
NextTexture ==
    \/ Len(trace) < MaxOps /\ BindTexture2D(TextureUnitArgs, TextureIds)
    \/ Len(trace) < MaxOps /\ Invalidate

SpecTexture == Init /\ [][NextTexture]_vars

\* The depth state.
NextDepth ==
    \/ Len(trace) < MaxOps /\ SetDepthTest(BOOLEAN, DepthCompareArgs)
    \/ Len(trace) < MaxOps /\ SetDepthTestNative(BOOLEAN, NativeCompareArgs)
    \/ Len(trace) < MaxOps /\ DepthWrite
    \/ Len(trace) < MaxOps /\ Invalidate

SpecDepth == Init /\ [][NextDepth]_vars

\* Face culling.
NextCull ==
    \/ Len(trace) < MaxOps /\ SetCullMode(BOOLEAN, CullModeArgs)
    \/ Len(trace) < MaxOps /\ Invalidate

SpecCull == Init /\ [][NextCull]_vars

\* The clear values.
NextClear ==
    \/ Len(trace) < MaxOps /\ SetClearColor(ClearColors)
    \/ Len(trace) < MaxOps /\ ClearDepth(ClearDepths)
    \/ Len(trace) < MaxOps /\ ClearStencil(ClearStencils)
    \/ Len(trace) < MaxOps /\ Invalidate

SpecClear == Init /\ [][NextClear]_vars

\* The vertex array binding.
NextVertexArray ==
    \/ Len(trace) < MaxOps /\ BindVertexArray(VertexArrayIds)
    \/ Len(trace) < MaxOps /\ Invalidate

SpecVertexArray == Init /\ [][NextVertexArray]_vars

\* The resource handles: buffer, shader, program, texture, geometry, renderer.
NextHandles ==
    \/ Len(trace) < MaxOps /\ BufferInitialize
    \/ Len(trace) < MaxOps /\ BufferDispose
    \/ Len(trace) < MaxOps /\ ShaderInitialize
    \/ Len(trace) < MaxOps /\ ShaderDispose
    \/ Len(trace) < MaxOps /\ ProgramInitialize
    \/ Len(trace) < MaxOps /\ ProgramDispose
    \/ Len(trace) < MaxOps /\ TextureInitialize
    \/ Len(trace) < MaxOps /\ TextureDispose
    \/ Len(trace) < MaxOps /\ GeometryBufferInitialize
    \/ Len(trace) < MaxOps /\ GeometryBufferDispose
    \/ Len(trace) < MaxOps /\ RendererDispose

SpecHandles == Init /\ [][NextHandles]_vars

\* The attribute buffer registry.
NextRegistry ==
    \/ Len(trace) < MaxOps /\ CreateAttributeBuffer(DescLists)
    \/ Len(trace) < MaxOps /\ AttributeBufferFromDesc(DescLists)

SpecRegistry == Init /\ [][NextRegistry]_vars

\* The geometry buffers of array_buffer.js and of geometry_buffer.js.
NextGeometry ==
    \/ Len(trace) < MaxGeometryOps /\ GeometryBufferInitialize
    \/ Len(trace) < MaxGeometryOps /\ GeometryBufferDispose
    \/ Len(trace) < MaxGeometryOps /\ GeometryBufferFileInitialize
    \/ Len(trace) < MaxGeometryOps /\ GeometryBufferFileDispose
    \/ Len(trace) < MaxGeometryOps /\ GeometryBufferData
    \/ Len(trace) < MaxGeometryOps /\ BindGeometryBuffer
    \/ Len(trace) < MaxGeometryOps /\ BindGeometryBufferFile

SpecGeometry == Init /\ [][NextGeometry]_vars

\* Constructions of quad index buffers.
NextQuads == Len(trace) < MaxOps /\ QuadIndexBufferConstruct(Capacities)

SpecQuads == Init /\ [][NextQuads]_vars

\* The operations of the cache that can fail, with arguments that make them
\* fail and arguments that do not.
NextFailures ==
    \/ Len(trace) < MaxOpsAll /\ BindTexture2D({-1, 0, 32, 33}, {1})
    \/ Len(trace) < MaxOpsAll /\ SetDepthTest(BOOLEAN, {DepthCompare_Less, 8})
    \/ Len(trace) < MaxOpsAll
       /\ EnableAttributes({NoAttributeBuffer, AttributeBuffer(2, 1)})
    \/ Len(trace) < MaxOpsAll /\ BindVertexArray({1})
    \/ Len(trace) < MaxOpsAll /\ Invalidate

SpecFailures == Init /\ [][NextFailures]_vars

\* Sequences of Program.initialize and Program.dispose.
NextProgramHandle ==
    \/ Len(trace) < MaxGeometryOps /\ ProgramInitialize
    \/ Len(trace) < MaxGeometryOps /\ ProgramDispose

SpecProgramHandle == Init /\ [][NextProgramHandle]_vars

\* The vertex attribute slots.
NextAttributes ==
    \/ Len(trace) < MaxAttributeOps /\ EnableAttributes(AttributeBuffers)
    \/ Len(trace) < MaxAttributeOps /\ Invalidate

SpecAttributes == Init /\ [][NextAttributes]_vars

\* The operations that touch the ARRAY_BUFFER binding.
NextBuffers ==
    \/ Len(trace) < MaxOps /\ BindArrayBuffer(BufferIds)
    \/ Len(trace) < MaxOps /\ ArrayBufferInitialize
    \/ Len(trace) < MaxOps /\ ArrayBufferBind
    \/ Len(trace) < MaxOps /\ BufferData
    \/ Len(trace) < MaxOps /\ GeometryBufferInitialize

SpecBuffers == Init /\ [][NextBuffers]_vars

\* Every operation of the state cache, on few arguments.
Next ==
    \/ Len(trace) < MaxOpsAll /\ UseProgram({Null, 1})
    \/ Len(trace) < MaxOpsAll /\ BindArrayBuffer({Null, 1})
    \/ Len(trace) < MaxOpsAll /\ BindElementArrayBuffer({Null, 1})
    \/ Len(trace) < MaxOpsAll /\ BindFrameBuffer({Null, 1})
    \/ Len(trace) < MaxOpsAll /\ BindTexture2D({0, 32}, {Null, 1})
    \/ Len(trace) < MaxOpsAll /\ SetCullMode({TRUE}, {Undefined, GL_BACK})
    \/ Len(trace) < MaxOpsAll /\ SetDepthTestNative({TRUE}, {Undefined, GL_LESS})
    \/ Len(trace) < MaxOpsAll /\ SetDepthTest({TRUE}, {DepthCompare_Less, 8})
    \/ Len(trace) < MaxOpsAll /\ DepthWrite
    \/ Len(trace) < MaxOpsAll
       /\ SetClearColor({<<INVALID_COLOR_VALUE, INVALID_COLOR_VALUE, INVALID_COLOR_VALUE,
                           INVALID_COLOR_VALUE>>, <<0, 0, 0, 1>>})
    \/ Len(trace) < MaxOpsAll /\ ClearDepth({INVALID_DEPTH_VALUE, 1})
    \/ Len(trace) < MaxOpsAll /\ ClearStencil({INVALID_STENCIL_VALUE, 0})
    \/ Len(trace) < MaxOpsAll
       /\ EnableAttributes({NoAttributeBuffer, AttributeBuffer(3, 2)})
    \/ Len(trace) < MaxOpsAll /\ BindVertexArray({Null, 1})
    \/ Len(trace) < MaxOpsAll /\ Invalidate

Spec == Init /\ [][Next]_vars

\* The bind and set operations of the cache, each with one value besides the
\* one the cache starts with.
NextSetters ==
    \/ Len(trace) < MaxOpsAll /\ UseProgram({Null, 1})
    \/ Len(trace) < MaxOpsAll /\ BindArrayBuffer({Null, 1})
    \/ Len(trace) < MaxOpsAll /\ BindElementArrayBuffer({Null, 1})
    \/ Len(trace) < MaxOpsAll /\ BindFrameBuffer({Null, 1})
    \/ Len(trace) < MaxOpsAll /\ BindTexture2D({0, 31}, {1})
    \/ Len(trace) < MaxOpsAll /\ SetCullMode({TRUE}, {GL_BACK})
    \/ Len(trace) < MaxOpsAll /\ SetDepthTestNative({TRUE}, {GL_LESS})
    \/ Len(trace) < MaxOpsAll /\ SetDepthTest({FALSE}, {DepthCompare_Less})
    \/ Len(trace) < MaxOpsAll /\ DepthWrite
    \/ Len(trace) < MaxOpsAll /\ SetClearColor({<<0, 0, 0, 1>>})
    \/ Len(trace) < MaxOpsAll /\ ClearDepth({1})
    \/ Len(trace) < MaxOpsAll /\ ClearStencil({0})
    \/ Len(trace) < MaxOpsAll /\ BindVertexArray({1})
    \/ Len(trace) < MaxOpsAll /\ Invalidate

SpecSetters == Init /\ [][NextSetters]_vars

---------------------------------------------------------------------------
(* Reading the trace.                                                      *)

\* Whether the calls of a sequence include call c.
Has(calls, c) == \E k \in 1 .. Len(calls) : calls[k] = c

\* The arguments, in order, of the calls made to context function fn.
ArgsOf(calls, fn) == [k \in 1 .. Len(CallsTo(calls, fn)) |-> CallsTo(calls, fn)[k].a]

Last == trace[Len(trace)]

---------------------------------------------------------------------------
(* Properties.                                                             *)

\* C1: in every sequence of useProgram calls, a call that starts a maximal
\* run of equal ids (the first call, or an id other than the one before it)
\* issues exactly one context useProgram with that id, and a repetition
\* issues none; also when the first id requested is null.
C1_UseProgramOncePerRun ==
    \A i \in 1 .. Len(trace) :
        trace[i].op = "useProgram" =>
            IF i = 1 \/ trace[i - 1].args # trace[i].args
            THEN trace[i].calls = <<Call("useProgram", trace[i].args)>>
            ELSE trace[i].calls = <<>>

\* The setters the state cache tracks.
TrackedSetters ==
    {"useProgram", "bindArrayBuffer", "bindElementArrayBuffer", "bindFrameBuffer",
     "bindTexture2D", "setCullMode", "setDepthTestNative", "depthWrite",
     "setClearColor", "clearDepth", "clearStencil", "bindVertexArray"}

\* Whether setter entry e issued the context call that applies its arguments.
IssuedUnderlying(e) ==
    CASE e.op = "useProgram" -> Has(e.calls, Call("useProgram", e.args))
      [] e.op = "bindArrayBuffer" ->
            Has(e.calls, Call("bindBuffer", <<GL_ARRAY_BUFFER, e.args[1]>>))
      [] e.op = "bindElementArrayBuffer" ->
            Has(e.calls, Call("bindBuffer", <<GL_ELEMENT_ARRAY_BUFFER, e.args[1]>>))
      [] e.op = "bindFrameBuffer" -> Has(e.calls, Call("bindFrameBuffer", e.args))
      [] e.op = "bindTexture2D" ->
            Has(e.calls, Call("bindTexture", <<GL_TEXTURE_2D + e.args[1], e.args[2]>>))
      [] e.op = "setCullMode" ->
            /\ Has(e.calls, Call(IF e.args[1] = 1 THEN "enable" ELSE "disable",
                                 <<GL_CULL_FACE>>))
            /\ Truthy(e.args[2]) => Has(e.calls, Call("cullFace", <<e.args[2]>>))
      [] e.op = "setDepthTestNative" ->
            /\ Has(e.calls, Call(IF e.args[1] = 1 THEN "enable" ELSE "disable",
                                 <<GL_DEPTH_TEST>>))
            /\ e.args[2] # Undefined => Has(e.calls, Call("depthFunc", <<e.args[2]>>))
      [] e.op = "depthWrite" -> Has(e.calls, Call("depthMask", e.args))
      [] e.op = "setClearColor" -> Has(e.calls, Call("clearColor", e.args))
      [] e.op = "clearDepth" -> Has(e.calls, Call("clearDepth", e.args))
      [] e.op = "clearStencil" -> Has(e.calls, Call("clearStencil", e.args))
      [] e.op = "bindVertexArray" ->
            \/ Has(e.calls, Call("bindVertexArray", e.args))
            \/ Has(e.calls, Call("bindVertexArrayOES", e.args))
      [] OTHER -> FALSE

\* C2: after invalidate(), the next call of any single tracked setter that
\* returns issues its underlying context call, whatever its arguments and
\* whatever was cached before the invalidate.
C2_SetterAfterInvalidateIssues ==
    \A i \in 2 .. Len(trace) :
        (/\ trace[i - 1].op = "invalidate"
         /\ trace[i].op \in TrackedSetters
         /\ trace[i].err = "none")
        => IssuedUnderlying(trace[i])

\* The buffer id an operation asks the cache to bind to ARRAY_BUFFER.
RequestedArrayBuffer(e) ==
    IF e.op = "bindArrayBuffer" THEN e.args[1] ELSE bufs[e.args[1]].id

\* C3: after any sequence of bindArrayBuffer, ArrayBuffer.bind,
\* GeometryBuffer.initialize and buffer uploads, the array buffer the cache
\* holds is the buffer bound to ARRAY_BUFFER on the context, so a bind the
\* cache suppresses asks for the buffer that really is bound.
C3_ArrayBufferCacheMatchesContext ==
    /\ state.arrayBuffer = glctx.arrayBuffer
    /\ (/\ trace # <<>>
        /\ Last.op \in {"bindArrayBuffer", "ArrayBuffer.bind"}
        /\ Last.err = "none"
        /\ Last.calls = <<>>)
       => glctx.arrayBuffer = RequestedArrayBuffer(Last)

\* The slots an operation's disableVertexAttribArray calls name.
DisabledSlots(calls) ==
    LET args == ArgsOf(calls, "disableVertexAttribArray")
    IN  {args[k][1] : k \in DOMAIN args}

\* The last two operations were enableAttributes of five descriptors on a
\* cache with no slot enabled, then enableAttributes of another buffer of two.
FiveThenTwo ==
    /\ Len(trace) >= 2
    /\ trace[Len(trace) - 1].op = "enableAttributes"
    /\ trace[Len(trace) - 1].args[2] = 5
    /\ trace[Len(trace) - 1].err = "none"
    /\ trace[Len(trace) - 1].before.attributeCount = 0
    /\ Last.op = "enableAttributes"
    /\ Last.args[2] = 2
    /\ Last.args[1] # trace[Len(trace) - 1].args[1]
    /\ Last.err = "none"

\* C4: starting with no slot enabled, enableAttributes with five descriptors
\* followed by enableAttributes with a different buffer of two descriptors
\* disables exactly slots 2, 3 and 4, never slot 0, and leaves attributeCount
\* at 2 (slots 0 and 1 enabled on the context).
C4_FiveThenTwoDisablesUpperSlots ==
    FiveThenTwo =>
        /\ DisabledSlots(Last.calls) = {2, 3, 4}
        /\ Len(ArgsOf(Last.calls, "disableVertexAttribArray")) = 3
        /\ state.attributeCount = 2
        /\ glctx.attribEnabled = {0, 1}

C4_Witness ==
    /\ FiveThenTwo
    /\ DisabledSlots(Last.calls) = {2, 3, 4}
    /\ state.attributeCount = 2

\* C5: no sequence of enableAttributes and invalidate issues
\* disableVertexAttribArray(0), enableAttributes with zero descriptors while
\* slots are enabled included.
C5_SlotZeroNeverDisabled ==
    \A i \in 1 .. Len(trace) :
        trace[i].op \in {"enableAttributes", "invalidate"} =>
            0 \notin DisabledSlots(trace[i].calls)

\* Entries i and i + 1 are bindTexture2D(u, T1) twice, the first finding unit
\* u without T1 bound as a 2D texture.
BoundTwice(i) ==
    /\ i + 1 <= Len(trace)
    /\ trace[i].op = "bindTexture2D"
    /\ trace[i].err = "none"
    /\ trace[i].before.textureUnits[trace[i].args[1]] #
           [type |-> GL_TEXTURE_2D, texture |-> trace[i].args[2]]
    /\ trace[i + 1].op = "bindTexture2D"
    /\ trace[i + 1].args = trace[i].args

\* Entry i + 2 is bindTexture2D(u, T2) on the same unit with another texture.
ThenAnother(i) ==
    /\ i + 2 = Len(trace)
    /\ Last.op = "bindTexture2D"
    /\ Last.args[1] = trace[i].args[1]
    /\ Last.args[2] # trace[i].args[2]

\* C6: for a unit u and textures T1 # T2, bindTexture2D(u, T1) twice issues
\* exactly one bindTexture call, on the first of the two; bindTexture2D(u, T2)
\* after them issues a second call and leaves T2 in the cache entry of unit u.
C6_BindTextureOncePerChange ==
    \A i \in 1 .. Len(trace) :
        BoundTwice(i) =>
            /\ trace[i].calls =
                   <<Call("bindTexture",
                          <<GL_TEXTURE_2D + trace[i].args[1], trace[i].args[2]>>)>>
            /\ trace[i + 1].calls = <<>>
            /\ ThenAnother(i) =>
                   /\ Last.calls =
                          <<Call("bindTexture",
                                 <<GL_TEXTURE_2D + Last.args[1], Last.args[2]>>)>>
                   /\ state.textureUnits[Last.args[1]].texture = Last.args[2]

C6_Witness ==
    /\ Len(trace) = 3
    /\ BoundTwice(1)
    /\ ThenAnother(1)
    /\ trace[1].args = <<3, 1>>
    /\ Len(CallsTo(Flatten([k \in 1 .. 3 |-> trace[k].calls]), "bindTexture")) = 2
    /\ state.textureUnits[3].texture = 2

\* C7: bindTexture2D accepts exactly the units 0 .. MAXIMUM_TEXTURE_UNITS - 1
\* and fails with 'Invalid texture unit id.' for every other unit, unit 32 and
\* the negative units among them.
C7_UnitRangeChecked ==
    \A i \in 1 .. Len(trace) :
        trace[i].op = "bindTexture2D" =>
            IF 0 <= trace[i].args[1] /\ trace[i].args[1] < MAXIMUM_TEXTURE_UNITS
            THEN trace[i].err = "none"
            ELSE trace[i].err = "Invalid texture unit id."

\* The native comparison function that corresponds to a DepthCompare value.
NativeCompare(compare) ==
    CASE compare = DepthCompare_Never -> GL_NEVER
      [] compare = DepthCompare_Less -> GL_LESS
      [] compare = DepthCompare_Equal -> GL_EQUAL
      [] compare = DepthCompare_NotEqual -> GL_NOTEQUAL
      [] compare = DepthCompare_LessEqual -> GL_LEQUAL
      [] compare = DepthCompare_Greater -> GL_GREATER
      [] compare = DepthCompare_GreaterEqual -> GL_GEQUAL
      [] compare = DepthCompare_Always -> GL_ALWAYS

DepthCompareValues == DepthCompare_Never .. DepthCompare_Always

\* Entries i and i + 1 are setDepthTest(true, Less) twice.
DepthTestTwice(i) ==
    /\ i + 1 <= Len(trace)
    /\ trace[i].op = "setDepthTest"
    /\ trace[i].args = <<Bit(TRUE), DepthCompare_Less>>
    /\ trace[i + 1].op = "setDepthTest"
    /\ trace[i + 1].args = trace[i].args

\* Entry e is a setDepthTest call whose enabled flag and comparison are the
\* ones the cache holds.
DepthTestAsCached(e) ==
    /\ e.op = "setDepthTest"
    /\ e.args[2] \in DepthCompareValues
    /\ e.before.depthTest.isSet
    /\ Bit(e.before.depthTest.value) = e.args[1]
    /\ e.before.depthCompare.isSet
    /\ e.before.depthCompare.value = NativeCompare(e.args[2])

\* C8: setDepthTest(true, Less) twice issues enable(DEPTH_TEST) once and
\* depthFunc once in total: both on the first call when the depth cells were
\* unset, none on the second; and every setDepthTest call whose enabled flag and
\* comparison equal the cached ones issues no context call.
C8_DepthTestOncePerChange ==
    /\ \A i \in 1 .. Len(trace) :
           DepthTestTwice(i) =>
               /\ trace[i + 1].calls = <<>>
               /\ (~trace[i].before.depthTest.isSet /\ ~trace[i].before.depthCompare.isSet)
                      => trace[i].calls = <<Call("enable", <<GL_DEPTH_TEST>>),
                                            Call("depthFunc", <<GL_LESS>>)>>
    /\ \A i \in 1 .. Len(trace) :
           DepthTestAsCached(trace[i]) => trace[i].calls = <<>> /\ trace[i].err = "none"

C8_Witness ==
    /\ Len(trace) >= 2
    /\ DepthTestTwice(1)
    /\ DepthTestAsCached(trace[2])
    /\ Len(CallsTo(trace[1].calls \o trace[2].calls, "enable")) = 1
    /\ Len(CallsTo(trace[1].calls \o trace[2].calls, "depthFunc")) = 1

\* C9: setDepthTest with any of the eight DepthCompare values on a cache whose
\* comparison is unset issues depthFunc with the corresponding native function,
\* and with any other supplied comparison fails with 'Unknown depth comparison.'.
C9_DepthCompareMapped ==
    \A i \in 1 .. Len(trace) :
        (trace[i].op = "setDepthTest" /\ trace[i].args[2] # Undefined) =>
            IF trace[i].args[2] \in DepthCompareValues
            THEN /\ trace[i].err = "none"
                 /\ ~trace[i].before.depthCompare.isSet =>
                        ArgsOf(trace[i].calls, "depthFunc") =
                            <<<<NativeCompare(trace[i].args[2])>>>>
            ELSE trace[i].err = "Unknown depth comparison."

\* C10: assigning depthWrite issues depthMask only when the cell is unset or
\* the value assigned differs from the cached one, so two consecutive
\* assignments of one value issue depthMask exactly once.
C10_DepthMaskOnlyOnChange ==
    \A i \in 1 .. Len(trace) :
        trace[i].op = "depthWrite" =>
            IF ~trace[i].before.depthWrite.isSet
               \/ Bit(trace[i].before.depthWrite.value) # trace[i].args[1]
            THEN trace[i].calls = <<Call("depthMask", trace[i].args)>>
            ELSE trace[i].calls = <<>>

\* The cache as operation i of the trace left it.
After(i) == IF i = Len(trace) THEN state ELSE trace[i + 1].before

\* The enable or disable call of capability cap that an enabled flag asks for.
ToggleCall(bit, cap) == Call(IF bit = 1 THEN "enable" ELSE "disable", <<cap>>)

\* C11: setCullMode without a mode leaves the cached cull mode and its set
\* flag as they were and issues no cullFace; with a mode, cullFace is issued
\* only when the mode cell is unset or holds another mode (and then for every
\* native mode), and enable/disable of CULL_FACE exactly when the enabled cell
\* is unset or holds the other value, whatever the other cell decides.
C11_CullCellsIndependent ==
    \A i \in 1 .. Len(trace) :
        trace[i].op = "setCullMode" =>
            LET e == trace[i]
                b == e.before
                modeChanges == ~b.cullMode.isSet \/ e.args[2] # b.cullMode.value
                enabledChanges == ~b.cullEnabled.isSet
                                  \/ Bit(b.cullEnabled.value) # e.args[1]
            IN  /\ e.args[2] = Undefined =>
                       /\ After(i).cullMode = b.cullMode
                       /\ CallsTo(e.calls, "cullFace") = <<>>
                /\ CallsTo(e.calls, "cullFace") # <<>> => modeChanges
                /\ (Truthy(e.args[2]) /\ modeChanges) =>
                       /\ ArgsOf(e.calls, "cullFace") = <<<<e.args[2]>>>>
                       /\ After(i).cullMode = Cell(TRUE, e.args[2])
                /\ CallsTo(e.calls, "enable") \o CallsTo(e.calls, "disable") =
                       IF enabledChanges THEN <<ToggleCall(e.args[1], GL_CULL_FACE)>>
                                         ELSE <<>>

\* Culling set with a mode, then switched off without one: the second call
\* issues the disable alone and the mode cell still holds the first mode.
C11_Witness ==
    /\ Len(trace) = 2
    /\ trace[1].op = "setCullMode" /\ trace[1].args = <<1, GL_BACK>>
    /\ trace[2].op = "setCullMode" /\ trace[2].args = <<0, Undefined>>
    /\ trace[2].calls = <<Call("disable", <<GL_CULL_FACE>>)>>
    /\ state.cullMode = Cell(TRUE, GL_BACK)

\* A cached clear colour as the tuple setClearColor takes.
ColorTuple(c) == <<c.r, c.g, c.b, c.a>>

\* C12: setClearColor issues clearColor, with the whole tuple, exactly when
\* one of the four channels differs from the cached channel, and the cache
\* then holds all four; the clearDepth and clearStencil setters issue their
\* call exactly when the value differs from the cached one.
C12_ClearStateOnlyOnChange ==
    \A i \in 1 .. Len(trace) :
        LET e == trace[i]
            b == e.before
        IN  /\ e.op = "setClearColor" =>
                   /\ e.calls = IF \E k \in 1 .. 4 : e.args[k] # ColorTuple(b.clearColor)[k]
                                THEN <<Call("clearColor", e.args)>>
                                ELSE <<>>
                   /\ ColorTuple(After(i).clearColor) = e.args
            /\ e.op = "clearDepth" =>
                   /\ e.calls = IF e.args[1] # b.clearDepth
                                THEN <<Call("clearDepth", e.args)>>
                                ELSE <<>>
                   /\ After(i).clearDepth = e.args[1]
            /\ e.op = "clearStencil" =>
                   /\ e.calls = IF e.args[1] # b.clearStencil
                                THEN <<Call("clearStencil", e.args)>>
                                ELSE <<>>
                   /\ After(i).clearStencil = e.args[1]

\* Opaque black, then transparent black (alpha alone differs), then the same.
C12_Witness ==
    /\ Len(trace) = 3
    /\ trace[1].op = "setClearColor" /\ trace[1].args = <<0, 0, 0, 1>>
    /\ trace[2].op = "setClearColor" /\ trace[2].args = <<0, 0, 0, 0>>
    /\ trace[2].calls = <<Call("clearColor", <<0, 0, 0, 0>>)>>
    /\ trace[3].op = "setClearColor" /\ trace[3].args = <<0, 0, 0, 0>>
    /\ trace[3].calls = <<>>
    /\ state.clearColor.a = 0

\* The vertex-array bind calls an operation issued, of either strategy.
VertexArrayBinds(calls) ==
    CallsTo(calls, "bindVertexArrayOES") \o CallsTo(calls, "bindVertexArray")

\* C13: with either strategy installed by initialize, bindVertexArray(id)
\* issues the underlying vertex-array bind exactly when id differs from the
\* cached id, and returns true exactly when it issued the bind and false
\* otherwise.
C13_BindVertexArrayReportsChange ==
    \A i \in 1 .. Len(trace) :
        trace[i].op = "bindVertexArray" =>
            LET e == trace[i]
                issued == VertexArrayBinds(e.calls) # <<>>
            IN  /\ e.err = "none"
                /\ issued <=> (e.args[1] # e.before.vaoId)
                /\ e.ret = IF issued THEN "true" ELSE "false"

\* The cache holds no value in any tracked cell: ids invalid, flags unset,
\* clear values at their sentinels, no vertex array, no attribute slot counted,
\* every texture unit empty.
AllCellsUnset(st) ==
    /\ st.activeProgram = Null
    /\ st.arrayBuffer = Null
    /\ st.elementArrayBuffer = Null
    /\ st.frameBuffer = Null
    /\ ~st.cullEnabled.isSet /\ ~st.cullMode.isSet
    /\ ~st.depthTest.isSet /\ ~st.depthCompare.isSet /\ ~st.depthWrite.isSet
    /\ ColorTuple(st.clearColor) = <<INVALID_COLOR_VALUE, INVALID_COLOR_VALUE,
                                     INVALID_COLOR_VALUE, INVALID_COLOR_VALUE>>
    /\ st.clearDepth = INVALID_DEPTH_VALUE
    /\ st.clearStencil = INVALID_STENCIL_VALUE
    /\ st.vaoId \in {Undefined, Null}
    /\ st.attributeCount = 0
    /\ st.attributeBufferId = -1
    /\ DOMAIN st.textureUnits = 0 .. (MAXIMUM_TEXTURE_UNITS - 1)
    /\ \A u \in DOMAIN st.textureUnits : st.textureUnits[u] = [type |-> 0, texture |-> Null]

\* C14: invalidate() leaves every tracked cell unset, the bound vertex-array
\* id included, empties the 32 texture units, and issues
\* disableVertexAttribArray for exactly the slots 1 .. attributeCount - 1.
C14_InvalidateResetsEveryCell ==
    \A i \in 1 .. Len(trace) :
        trace[i].op = "invalidate" =>
            /\ AllCellsUnset(After(i))
            /\ trace[i].calls =
                   SlotCalls("disableVertexAttribArray", 1, trace[i].before.attributeCount)

InitializeOps == {"BaseBuffer.initializeBuffer", "Shader.initialize",
                  "Program.initialize", "BaseTexture.initialize"}

\* The context function that allocates the native object of a handle type.
CreateFn(op) ==
    CASE op = "BaseBuffer.initializeBuffer" -> "createBuffer"
      [] op = "Shader.initialize" -> "createShader"
      [] op = "Program.initialize" -> "createProgram"
      [] op = "BaseTexture.initialize" -> "createTexture"

AlreadyInitializedErrors ==
    {"Buffer has already been initialized.",
     "Shader.initialize - Shader has already been initialized.",
     "Program.initialize - Program has already been initialized.",
     "Texture has already been initialized."}

MissingContextErrors ==
    {"Invalid WebGL context was specified.",
     "Shader.initialize - No WebGL context was specified.",
     "Program.initialize - No WebGL context was specified."}

\* The handle an initialize found holds a native object not yet disposed of.
HeldBefore(e) == e.before.gl \/ e.before.id # Null

\* An initialize that was given a context and whose compile and link queries
\* all answered well.
AllWent(e) ==
    /\ e.args[1] = 1
    /\ e.op = "Shader.initialize" => e.args[2] = 1
    /\ e.op = "Program.initialize" => e.args[4] = 1 /\ e.args[5] = 1 /\ e.args[6] = 1

\* C15: for buffer, shader, program and texture handles, initialize on a
\* handle already initialized fails with the already-initialized error and
\* initialize without a context with the missing-context error, either way
\* allocating nothing and leaving the handle as it was; an initialize that
\* succeeds allocates exactly one native object of the handle's kind and
\* stores its id.
C15_InitializeGuards ==
    \A i \in 1 .. Len(trace) :
        trace[i].op \in InitializeOps =>
            LET e == trace[i]
                created == ArgsOf(e.calls, CreateFn(e.op))
            IN  /\ (HeldBefore(e) \/ e.args[1] = 0) =>
                       /\ e.err \in (IF HeldBefore(e) THEN AlreadyInitializedErrors ELSE {})
                                    \cup (IF e.args[1] = 0 THEN MissingContextErrors ELSE {})
                       /\ e.calls = <<>>
                       /\ e.after = e.before
                /\ (~HeldBefore(e) /\ AllWent(e)) =>
                       /\ e.err = "none"
                       /\ Len(created) = 1
                       /\ e.after.id = created[1][1]
                       /\ e.after.id # Null

GuardedDisposeOps == {"BaseBuffer.dispose", "Shader.dispose", "Program.dispose"}

\* The context function that releases the native object of a handle type.
DeleteFn(op) ==
    CASE op = "BaseBuffer.dispose" -> "deleteBuffer"
      [] op = "Shader.dispose" -> "deleteShader"
      [] op = "Program.dispose" -> "deleteProgram"
      [] op = "BaseTexture.dispose" -> "deleteTexture"

DisposeOps == GuardedDisposeOps \cup
              {"BaseTexture.dispose", "GeometryBuffer.dispose", "Renderer.dispose"}

\* C17: no dispose method raises: every dispose of a buffer, shader,
\* program, texture, geometry buffer or renderer, in whatever state it finds
\* its object, returns normally.
C17_DisposeNeverRaises ==
    \A i \in 1 .. Len(trace) :
        trace[i].op \in DisposeOps => trace[i].err = "none"

\* The dispose operation of the handle type an initialize belongs to.
DisposeOf(op) ==
    CASE op = "BaseBuffer.initializeBuffer" -> "BaseBuffer.dispose"
      [] op = "Shader.initialize" -> "Shader.dispose"
      [] op = "Program.initialize" -> "Program.dispose"
      [] op = "BaseTexture.initialize" -> "BaseTexture.dispose"

\* A handle with every native id on it blanked.
Shape(h) ==
    IF "vertexShader" \in DOMAIN h
    THEN [h EXCEPT !.id = Null, !.vertexShader.id = Null, !.fragmentShader.id = Null]
    ELSE [h EXCEPT !.id = Null]

\* Entries i, i+1, i+2 are initialize, dispose, initialize of one handle, the
\* first initialize having succeeded and the second given the same arguments.
RoundTrip(i) ==
    /\ i + 2 <= Len(trace)
    /\ trace[i].op \in InitializeOps
    /\ AllWent(trace[i]) /\ trace[i].err = "none"
    /\ trace[i + 1].op = DisposeOf(trace[i].op)
    /\ trace[i + 2].op = trace[i].op
    /\ trace[i + 2].args = trace[i].args

\* C18: initialize, dispose, initialize on one handle of any type succeeds:
\* the second initialize returns normally, allocates a native object other
\* than the first one, and leaves the handle holding the new id and otherwise
\* exactly as a first initialize leaves it.
C18_InitializeDisposeInitialize ==
    \A i \in 1 .. Len(trace) :
        RoundTrip(i) =>
            LET first == trace[i]
                second == trace[i + 2]
                created == ArgsOf(second.calls, CreateFn(second.op))
            IN  /\ second.err = "none"
                /\ Len(created) = 1
                /\ created[1][1] # first.after.id
                /\ second.after.id = created[1][1]
                /\ Shape(second.after) = Shape(first.after)

\* Entry i is a Shader.initialize on an uninitialized handle, with a context,
\* whose shader did not compile.
CompileFailed(i) ==
    /\ trace[i].op = "Shader.initialize"
    /\ ~trace[i].before.gl
    /\ trace[i].args = <<1, 0>>

\* No Shader.dispose lies strictly between entries i and j.
NoShaderDisposeBetween(i, j) ==
    \A k \in (i + 1) .. (j - 1) : trace[k].op # "Shader.dispose"

\* C19: a Shader.initialize whose shader fails to compile raises the
\* compile-failure error and leaves the handle initialized with the non-null
\* id of the shader it created; until a dispose every further initialize with
\* a context fails with already-initialized and changes nothing; the first
\* dispose deletes exactly that shader, and no other operation on the handle
\* deletes it.
C19_CompileFailureKeepsShader ==
    \A i \in 1 .. Len(trace) :
        CompileFailed(i) =>
            LET e == trace[i]
                id == e.after.id
            IN  /\ e.err = "Shader.initialize - Failed to compile shader."
                /\ e.after.gl /\ id # Null
                /\ ArgsOf(e.calls, "createShader") = << <<id, e.after.type>> >>
                /\ \A j \in (i + 1) .. Len(trace) :
                       NoShaderDisposeBetween(i, j) =>
                           /\ (trace[j].op = "Shader.initialize" /\ trace[j].args[1] = 1) =>
                                  /\ trace[j].err =
                                         "Shader.initialize - Shader has already been initialized."
                                  /\ trace[j].calls = <<>>
                                  /\ trace[j].after = e.after
                           /\ trace[j].op = "Shader.dispose" =>
                                  /\ trace[j].calls = <<Call("deleteShader", <<id>>)>>
                                  /\ trace[j].err = "none"
                                  /\ \A k \in (j + 1) .. Len(trace) :
                                         ~Has(trace[k].calls, Call("deleteShader", <<id>>))

\* A compile failure, a further initialize that is refused, then the dispose
\* that deletes the shader.
C19_Witness ==
    /\ Len(trace) = 3
    /\ CompileFailed(1)
    /\ trace[2].op = "Shader.initialize" /\ trace[2].args[1] = 1
    /\ trace[2].err = "Shader.initialize - Shader has already been initialized."
    /\ trace[3].op = "Shader.dispose"
    /\ Has(trace[3].calls, Call("deleteShader", <<trace[1].after.id>>))

\* Entry i is a Program.initialize on an uninitialized handle, with a context,
\* whose shaders compiled and whose link was answered as failed.
LinkFailed(i) ==
    /\ trace[i].op = "Program.initialize"
    /\ ~trace[i].before.gl
    /\ trace[i].args[1] = 1 /\ trace[i].args[4] = 1 /\ trace[i].args[5] = 1
    /\ trace[i].args[6] = 0

\* The program, and the shaders, that the calls of an initialize created.
CreatedBy(calls, fn) == {ArgsOf(calls, fn)[k][1] : k \in 1 .. Len(ArgsOf(calls, fn))}

\* The initialize disposed of everything it had created and left the handle
\* uninitialized with the invalid id.
DisposedItself(e) ==
    /\ \A id \in CreatedBy(e.calls, "createProgram") :
           Has(e.calls, Call("deleteProgram", <<id>>))
    /\ \A id \in CreatedBy(e.calls, "createShader") :
           Has(e.calls, Call("deleteShader", <<id>>))
    /\ ~e.after.gl /\ e.after.id = Null
    /\ ~e.after.vertexShader.gl /\ ~e.after.fragmentShader.gl

\* C20: a Program.initialize whose link fails raises an error to its caller,
\* having deleted the program and the vertex and fragment shaders it owns,
\* and leaves the program handle uninitialized with the invalid id.
C20_LinkFailureSurfaces ==
    \A i \in 1 .. Len(trace) :
        LinkFailed(i) => trace[i].err # "none" /\ DisposedItself(trace[i])

\* Two descriptor lists of the same length that agree on size, type,
\* normalized and stride at every position.
StructurallyEqual(d1, d2) ==
    /\ d1.kind = "list" /\ d2.kind = "list"
    /\ Len(d1.list) = Len(d2.list)
    /\ \A k \in 1 .. Len(d1.list) :
           /\ d1.list[k].size = d2.list[k].size
           /\ d1.list[k].type = d2.list[k].type
           /\ d1.list[k].normalized = d2.list[k].normalized
           /\ d1.list[k].stride = d2.list[k].stride

\* A non-empty descriptor list of types the library knows.
ValidDesc(d) ==
    /\ d.kind = "list" /\ Len(d.list) > 0
    /\ \A k \in 1 .. Len(d.list) : d.list[k].type \in {"float", "short"}

\* Entry i is a createAttributeBuffer call with a valid descriptor list.
Creates(i) == trace[i].op = "createAttributeBuffer" /\ ValidDesc(trace[i].args[1])

\* C21: two consecutive createAttributeBuffer calls with structurally equal
\* descriptor lists both return, with the same AttributeBuffer identity, and
\* the second adds no registry entry.
C21_EqualListsShareIdentity ==
    \A i \in 1 .. Len(trace) - 1 :
        (/\ Creates(i) /\ Creates(i + 1)
         /\ StructurallyEqual(trace[i].args[1], trace[i + 1].args[1])) =>
            /\ trace[i].err = "none" /\ trace[i + 1].err = "none"
            /\ trace[i + 1].ret.id = trace[i].ret.id
            /\ trace[i + 1].after.registered = trace[i + 1].before.registered

\* C22: createAttributeBuffer calls with descriptor lists that differ in
\* length, or in a field at some position, both return, with distinct
\* AttributeBuffer identities.
C22_DifferentListsDistinctIdentity ==
    \A i \in 1 .. Len(trace) : \A j \in 1 .. Len(trace) :
        (/\ i < j /\ Creates(i) /\ Creates(j)
         /\ ~StructurallyEqual(trace[i].args[1], trace[j].args[1])) =>
            /\ trace[i].err = "none" /\ trace[j].err = "none"
            /\ trace[i].ret.id # trace[j].ret.id

\* The errors that reject the descriptor list argument.
NoAttributesErrors == {"No attributes supplied.", "No attributes specified."}

\* Entry i is a createAttributeBuffer call with an empty or absent list.
CreatesFromNothing(i) ==
    /\ trace[i].op = "createAttributeBuffer"
    /\ \/ trace[i].args[1].kind = "absent"
       \/ trace[i].args[1].kind = "list" /\ trace[i].args[1].list = <<>>

\* C23: createAttributeBuffer with an empty or absent descriptor list fails
\* with the error that rejects the argument, adds no registry entry and
\* takes no identity: the registry and the identity counter stay as they were.
C23_EmptyListRejected ==
    \A i \in 1 .. Len(trace) :
        CreatesFromNothing(i) =>
            /\ trace[i].err \in NoAttributesErrors
            /\ trace[i].after.registered = trace[i].before.registered
            /\ trace[i].after.nextId = trace[i].before.nextId

\* An empty list is rejected after identities have been handed out.
C23_Witness ==
    /\ Len(trace) >= 2
    /\ CreatesFromNothing(Len(trace))
    /\ Last.args[1].kind = "list"
    /\ Last.before.nextId > 0
    /\ Last.err \in NoAttributesErrors

\* Entry i is a GeometryBuffer.initialize without a renderer or without
\* attribute descriptors.
InitializeLacksArgument(i) ==
    /\ trace[i].op = "GeometryBuffer.initialize"
    /\ trace[i].args[1] = 0 \/ trace[i].args[2].kind = "absent"

\* C24: GeometryBuffer.initialize without a renderer, or without attribute
\* descriptors, fails with the error that names the missing argument, issues
\* no context call (no array buffer, no vertex array object is created) and
\* leaves the geometry buffer, its array buffer and the registry as they were.
C24_InitializeRequiresArguments ==
    \A i \in 1 .. Len(trace) :
        InitializeLacksArgument(i) =>
            /\ trace[i].err = (IF trace[i].args[1] = 0
                               THEN "Renderer must be supplied"
                               ELSE "Attribute buffer must be supplied")
            /\ trace[i].calls = <<>>
            /\ trace[i].after = trace[i].before

\* A geometry buffer is initialized with a renderer and without descriptors.
C24_Witness ==
    /\ trace # <<>>
    /\ InitializeLacksArgument(Len(trace))
    /\ Last.args[1] = 1
    /\ Last.err = "Attribute buffer must be supplied"
    /\ geom = GeometryBufferNew /\ ~bufs["geom"].gl

GeometryDisposeOps == {"GeometryBuffer.dispose", "geometry_buffer.dispose"}

\* The vertex array object and the array buffer a geometry buffer held when
\* the dispose of entry e began.
HeldByGeometry(e) ==
    IF e.op = "GeometryBuffer.dispose"
    THEN [vao |-> e.before[1].vao, buffer |-> e.before[2]]
    ELSE [vao |-> e.before.vao, buffer |-> e.before.arrayBuffer]

\* The arguments of the calls that delete a vertex array object.
VertexArrayDeletes(calls) ==
    ArgsOf(calls, "deleteVertexArray") \o ArgsOf(calls, "deleteVertexArrayOES")

\* C25: every GeometryBuffer.dispose deletes the vertex array object exactly
\* when the geometry buffer owns one, deletes the array buffer it holds,
\* leaves the attribute buffer registry as it is, and, when it follows
\* another dispose of the same geometry buffer, issues no call at all.
C25_DisposeReleasesLayoutAndBuffer ==
    [][(Len(trace') = Len(trace) + 1 /\ trace'[Len(trace')].op \in GeometryDisposeOps) =>
           LET e == trace'[Len(trace')]
               held == HeldByGeometry(e)
           IN  /\ VertexArrayDeletes(e.calls) =
                      (IF Truthy(held.vao) THEN << <<held.vao>> >> ELSE <<>>)
               /\ ArgsOf(e.calls, "deleteBuffer") =
                      (IF held.buffer.gl THEN << <<held.buffer.id>> >> ELSE <<>>)
               /\ registry' = registry
               /\ (trace # <<>> /\ Last.op = e.op) => e.calls = <<>>]_vars

VertexArrayFns == {"createVertexArray", "createVertexArrayOES", "bindVertexArray",
                   "bindVertexArrayOES", "deleteVertexArray", "deleteVertexArrayOES"}

\* Entry i is a use of the application's geometry buffer that the fallback
\* path has to serve: an initialize with a renderer and descriptors, or a
\* bufferData or bindGeometryBuffer once the geometry has its renderer.
UsesGeometry(i) ==
    \/ trace[i].op = "GeometryBuffer.initialize" /\ ~InitializeLacksArgument(i)
    \/ /\ trace[i].op \in {"GeometryBuffer.bufferData", "bindGeometryBuffer"}
       /\ trace[i].before[1].renderer

\* C26: on a WebGL 1.0 context without the vertex array object extension,
\* GeometryBuffer.initialize, GeometryBuffer.bufferData and
\* WebGLState.bindGeometryBuffer return normally and issue no call that
\* creates, binds or deletes a vertex array object.
C26_NoVertexArrayFallback ==
    glctx.kind = "webgl1" =>
        \A i \in 1 .. Len(trace) :
            UsesGeometry(i) =>
                /\ trace[i].err = "none"
                /\ \A k \in 1 .. Len(trace[i].calls) : trace[i].calls[k].fn \notin VertexArrayFns

\* Entry i is an enableAttributes that went through with at least one
\* descriptor.
EnablesSome(i) ==
    /\ trace[i].op = "enableAttributes"
    /\ trace[i].err = "none"
    /\ trace[i].args[2] >= 1

\* The argument lists of calls that name the slots from, from + 1, .. to - 1.
SlotArgs(from, to) ==
    IF from < to THEN [k \in 1 .. (to - from) |-> <<from + k - 1>>] ELSE <<>>

\* C27: enableAttributes with new >= 1 descriptors on a cache that has old
\* slots enabled issues disableVertexAttribArray exactly for the slots
\* new .. old - 1 and no enable when new < old, enableVertexAttribArray exactly
\* for the slots old .. new - 1 and no disable when new > old, and neither when
\* they are equal; afterwards attributeCount is new and attributeBufferId is
\* the buffer's id.
C27_EnableAttributesTogglesDifference ==
    \A i \in 1 .. Len(trace) :
        EnablesSome(i) =>
            LET old == trace[i].before.attributeCount
                new == trace[i].args[2]
            IN  /\ ArgsOf(trace[i].calls, "disableVertexAttribArray")
                     = (IF new < old THEN SlotArgs(new, old) ELSE <<>>)
                /\ ArgsOf(trace[i].calls, "enableVertexAttribArray")
                     = (IF new > old THEN SlotArgs(old, new) ELSE <<>>)
                /\ After(i).attributeCount = new
                /\ After(i).attributeBufferId = trace[i].args[1]

\* A trace where the count grew from two to five, shrank from five to two and
\* stayed at two.
C27_Witness ==
    /\ Len(trace) >= 4
    /\ \E i \in 1 .. Len(trace) :
          /\ EnablesSome(i)
          /\ trace[i].before.attributeCount = 2
          /\ trace[i].args[2] = 5
          /\ ArgsOf(trace[i].calls, "enableVertexAttribArray") = <<<<2>>, <<3>>, <<4>>>>
    /\ \E i \in 1 .. Len(trace) :
          /\ EnablesSome(i)
          /\ trace[i].before.attributeCount = 5
          /\ trace[i].args[2] = 2
          /\ ArgsOf(trace[i].calls, "disableVertexAttribArray") = <<<<2>>, <<3>>, <<4>>>>
    /\ \E i \in 1 .. Len(trace) :
          /\ EnablesSome(i)
          /\ trace[i].before.attributeCount = 2
          /\ trace[i].args[2] = 2
          /\ CallsTo(trace[i].calls, "enableVertexAttribArray") = <<>>
          /\ CallsTo(trace[i].calls, "disableVertexAttribArray") = <<>>

\* The attribute buffer with identity id.
BufferWithId(id) == CHOOSE ab \in AttributeBuffers : ~ab.isNull /\ ab.id = id

\* The vertexAttribPointer calls that describe attribute buffer ab, one per
\* descriptor, in slot order.
PointersOf(ab) == [k \in 1 .. Len(ab.attributes) |-> PointerCall(ab.attributes[k])]

\* C28: every enableAttributes issues vertexAttribPointer once for each
\* descriptor of the buffer (slots 0 .. new - 1), whatever the cache holds:
\* also when the buffer passed is the one the call before it passed.
C28_PointersAlwaysIssued ==
    \A i \in 1 .. Len(trace) :
        (trace[i].op = "enableAttributes" /\ trace[i].err = "none") =>
            /\ CallsTo(trace[i].calls, "vertexAttribPointer")
                 = PointersOf(BufferWithId(trace[i].args[1]))
            /\ \A k \in 1 .. trace[i].args[2] :
                  ArgsOf(trace[i].calls, "vertexAttribPointer")[k][1] = k - 1

\* The last two operations passed the same buffer of five descriptors, and
\* the second issued its five pointer calls again.
C28_Witness ==
    /\ Len(trace) >= 2
    /\ EnablesSome(Len(trace) - 1)
    /\ EnablesSome(Len(trace))
    /\ trace[Len(trace) - 1].args = Last.args
    /\ Last.args[2] = 5
    /\ Last.before.attributeBufferId = Last.args[1]
    /\ Len(CallsTo(Last.calls, "vertexAttribPointer")) = 5

\* The bind operations that report whether they changed the binding.
ReportingBinds ==
    {"useProgram", "bindTexture2D", "bindFrameBuffer", "bindArrayBuffer",
     "bindElementArrayBuffer"}

\* Whether cache st holds, in the cell of bind entry e, the value e asked for.
Cached(e, st) ==
    CASE e.op = "useProgram" -> st.activeProgram = e.args[1]
      [] e.op = "bindFrameBuffer" -> st.frameBuffer = e.args[1]
      [] e.op = "bindArrayBuffer" -> st.arrayBuffer = e.args[1]
      [] e.op = "bindElementArrayBuffer" -> st.elementArrayBuffer = e.args[1]
      [] e.op = "bindTexture2D" ->
            /\ e.args[1] \in DOMAIN st.textureUnits
            /\ st.textureUnits[e.args[1]] = [type |-> GL_TEXTURE_2D, texture |-> e.args[2]]

\* C29: useProgram, bindTexture2D, bindFrameBuffer, bindArrayBuffer and
\* bindElementArrayBuffer return true exactly when the call issued the
\* underlying context call and wrote the requested value to the cache, and
\* false exactly when the cache already held the requested value and the call
\* issued nothing.
C29_ReturnReportsChange ==
    \A i \in 1 .. Len(trace) :
        (trace[i].op \in ReportingBinds /\ trace[i].err = "none") =>
            LET e == trace[i]
                applied == /\ IssuedUnderlying(e)
                           /\ Len(e.calls) = 1
                           /\ After(i) # e.before
                           /\ Cached(e, After(i))
                skipped == /\ Cached(e, e.before)
                           /\ e.calls = <<>>
                           /\ After(i) = e.before
            IN  /\ e.ret \in {"true", "false"}
                /\ (e.ret = "true") <=> applied
                /\ (e.ret = "false") <=> skipped

\* bindElementArrayBuffer of a buffer returned true and issued the bind, and
\* its repetition returned false and issued nothing.
C29_Witness ==
    /\ Len(trace) >= 2
    /\ trace[Len(trace) - 1].op = "bindElementArrayBuffer"
    /\ trace[Len(trace) - 1].args = <<1>>
    /\ trace[Len(trace) - 1].ret = "true"
    /\ IssuedUnderlying(trace[Len(trace) - 1])
    /\ Last.op = "bindElementArrayBuffer"
    /\ Last.args = <<1>>
    /\ Last.ret = "false"
    /\ Last.calls = <<>>
    /\ state.elementArrayBuffer = 1

\* The bind and set operations of the state cache.
BindAndSetOps == TrackedSetters \cup {"setDepthTest"}

\* The fields of the cache that operation op keeps its value in.
OwnFields(op) ==
    CASE op = "useProgram" -> {"activeProgram"}
      [] op = "bindArrayBuffer" -> {"arrayBuffer"}
      [] op = "bindElementArrayBuffer" -> {"elementArrayBuffer"}
      [] op = "bindFrameBuffer" -> {"frameBuffer"}
      [] op = "bindTexture2D" -> {"textureUnits"}
      [] op = "setCullMode" -> {"cullEnabled", "cullMode"}
      [] op \in {"setDepthTestNative", "setDepthTest"} -> {"depthTest", "depthCompare"}
      [] op = "depthWrite" -> {"depthWrite"}
      [] op = "setClearColor" -> {"clearColor"}
      [] op = "clearDepth" -> {"clearDepth"}
      [] op = "clearStencil" -> {"clearStencil"}
      [] op = "bindVertexArray" -> {"vaoId"}

\* C30: a bind or set operation of the state cache changes only its own cell:
\* every other field of the cache is after the operation what it was before
\* (bindArrayBuffer leaves the element array cell alone and the reverse), and
\* bindTexture2D(u, id) leaves every texture unit other than u unchanged.
C30_SettersChangeOwnCellOnly ==
    \A i \in 1 .. Len(trace) :
        trace[i].op \in BindAndSetOps =>
            /\ \A f \in (DOMAIN state) \ OwnFields(trace[i].op) :
                  After(i)[f] = trace[i].before[f]
            /\ trace[i].op = "bindTexture2D" =>
                  \A u \in DOMAIN state.textureUnits :
                      u # trace[i].args[1] =>
                          After(i).textureUnits[u] = trace[i].before.textureUnits[u]

\* An element array buffer and a texture were bound, then bindArrayBuffer
\* changed the array cell and left both as they were.
C30_Witness ==
    /\ Len(trace) >= 3
    /\ Last.op = "bindArrayBuffer"
    /\ Last.ret = "true"
    /\ Last.before.arrayBuffer = Null
    /\ Last.before.elementArrayBuffer = 1
    /\ Last.before.textureUnits[0].texture = 1
    /\ state.arrayBuffer = 1
    /\ state.elementArrayBuffer = 1
    /\ state.textureUnits[0].texture = 1
    /\ \E i \in 1 .. Len(trace) :
          /\ trace[i].op = "bindTexture2D"
          /\ trace[i].ret = "true"
          /\ trace[i].before.elementArrayBuffer = After(i).elementArrayBuffer

\* Whether registered buffer b was made from a list structurally equal to d.
EntryEquals(b, d) ==
    /\ d.kind = "list"
    /\ Len(b.attributes) = Len(d.list)
    /\ \A k \in 1 .. Len(d.list) :
           /\ b.attributes[k].size = d.list[k].size
           /\ b.attributes[k].type = d.list[k].type
           /\ b.attributes[k].normalized = d.list[k].normalized
           /\ b.attributes[k].stride = d.list[k].stride

\* The positions of the entries of a registry that equal descriptor list d.
Hits(registered, d) == {k \in 1 .. Len(registered) : EntryEquals(registered[k], d)}

\* The least member of a non-empty set of positions.
Earliest(S) == CHOOSE k \in S : \A m \in S : k <= m

\* Whether no two entries of a registry were made from equal lists.
NoEqualEntries(registered) ==
    \A k \in 1 .. Len(registered) : \A m \in 1 .. Len(registered) :
        k # m =>
            ~EntryEquals(registered[k], DescList(registered[m].attributes))

Constructs(i) ==
    /\ trace[i].err = "none"
    /\ \/ trace[i].op = "AttributeBuffer.fromDesc"
       \/ /\ trace[i].op = "createAttributeBuffer"
          /\ Len(trace[i].after.registered) > Len(trace[i].before.registered)

\* C32: every AttributeBuffer gets its identity at construction, the
\* identities grow strictly in construction order (each is one more than the
\* last handed out, also after a construction that was abandoned), so no two
\* instances share one.
C32_IdentitiesStrictlyIncrease ==
    /\ \A i \in 1 .. Len(trace) :
          Constructs(i) =>
              /\ trace[i].ret.id = trace[i].before.nextId + 1
              /\ trace[i].after.nextId = trace[i].ret.id
    /\ \A i \in 1 .. Len(trace) : \A j \in 1 .. Len(trace) :
          (i < j /\ Constructs(i) /\ Constructs(j)) =>
              trace[i].ret.id < trace[j].ret.id
    /\ \A i \in 1 .. Len(trace) :
          trace[i].op \in {"AttributeBuffer.fromDesc", "createAttributeBuffer"} =>
              trace[i].after.nextId >= trace[i].before.nextId

\* Three buffers were constructed one after the other with the identities 1,
\* 2 and 3.
C32_Witness ==
    /\ Len(trace) = 3
    /\ \A i \in 1 .. 3 : Constructs(i) /\ trace[i].ret.id = i
    /\ registry.nextId = 3

\* The context functions that create and that delete a native object.
CreateFns == {"createBuffer", "createShader", "createProgram", "createTexture"}
DeleteFns == {"deleteBuffer", "deleteShader", "deleteProgram", "deleteTexture"}

\* The native objects that the calls of the trace created and did not delete.
LiveObjects ==
    LET named(fns) == UNION {{trace[i].calls[k].a[1] :
                                k \in {m \in 1 .. Len(trace[i].calls) :
                                          trace[i].calls[m].fn \in fns}} :
                             i \in 1 .. Len(trace)}
    IN  named(CreateFns) \ named(DeleteFns)

\* The resource handles of the application: the buffer wrappers, the
\* texture, the program with its two shaders, and the shader.
ResourceHandles ==
    {bufs[h] : h \in BufferHandles}
    \cup {[gl |-> res.texture.gl, id |-> res.texture.id],
          [gl |-> res.program.gl, id |-> res.program.id],
          [gl |-> res.program.vertexShader.gl, id |-> res.program.vertexShader.id],
          [gl |-> res.program.fragmentShader.gl, id |-> res.program.fragmentShader.id],
          [gl |-> res.shader.gl, id |-> res.shader.id]}

\* C33: in every reachable state the native id of a resource handle is the
\* invalid sentinel or an object that was created and has not been deleted,
\* and the handle holds a context reference exactly when its id is not the
\* sentinel.
C33_HandleIdsLiveOrInvalid ==
    \A h \in ResourceHandles :
        /\ h.id = Null \/ h.id \in LiveObjects
        /\ h.gl <=> h.id # Null

\* Entry i is an initialize of a new geometry buffer, of either class, with
\* a renderer and attributes supplied.
InitializesGeometry(i) ==
    \/ /\ trace[i].op = "GeometryBuffer.initialize"
       /\ ~InitializeLacksArgument(i)
       /\ trace[i].before[1] = GeometryBufferNew
       /\ trace[i].before[2] = BaseBufferNew
    \/ /\ trace[i].op = "geometry_buffer.initialize"
       /\ trace[i].args[1] = 1 /\ trace[i].args[2] # 0
       /\ trace[i].before[1] = geometry_buffer_New

\* Whether a call binds a vertex array object (null, to unbind).
BindsVertexArray(c) == c.fn \in {"bindVertexArray", "bindVertexArrayOES"}

\* Whether the calls create a vertex array object, bind it, bind the array
\* buffer, upload to it, configure an attribute and unbind the vertex array
\* object, in this order.
LayoutSetUpInOrder(calls) ==
    \E a, b, c, d, e, f \in 1 .. Len(calls) :
        /\ a < b /\ b < c /\ c < d /\ d < e /\ e < f
        /\ calls[a].fn \in {"createVertexArray", "createVertexArrayOES"}
        /\ BindsVertexArray(calls[b]) /\ calls[b].a = calls[a].a
        /\ calls[c].fn = "bindBuffer" /\ calls[c].a[1] = GL_ARRAY_BUFFER
        /\ calls[d].fn = "bufferData"
        /\ calls[e].fn = "vertexAttribPointer"
        /\ BindsVertexArray(calls[f]) /\ calls[f].a = <<Null>>

\* C34: on a renderer that supports vertex array objects,
\* GeometryBuffer.initialize with a renderer and attributes returns normally
\* after it created the layout object, bound it, bound the array buffer,
\* uploaded the data, configured the attributes and unbound the layout object,
\* in this order; the last vertex array bind it issued is the unbind.
C34_InitializeRecordsLayout ==
    supportsVAO(glctx.kind) =>
        \A i \in 1 .. Len(trace) :
            InitializesGeometry(i) =>
                /\ trace[i].err = "none"
                /\ LayoutSetUpInOrder(trace[i].calls)
                /\ LET binds == SelectSeq(trace[i].calls, BindsVertexArray)
                   IN  binds # <<>> /\ binds[Len(binds)].a = <<Null>>

\* The number of descriptors that the geometry buffer bound by entry i was
\* initialized with: those of the last initialize of its class before i that
\* had its arguments.
InitializedWith(i) ==
    LET ofClass == IF trace[i].op = "bindGeometryBuffer"
                   THEN "GeometryBuffer.initialize" ELSE "geometry_buffer.initialize"
        js == {j \in 1 .. i - 1 :
                  /\ trace[j].op = ofClass
                  /\ trace[j].args[1] = 1
                  /\ IF ofClass = "GeometryBuffer.initialize"
                     THEN trace[j].args[2].kind = "list" ELSE trace[j].args[2] # 0}
        last == CHOOSE j \in js : \A m \in js : m <= j
    IN  IF js = {} THEN 0
        ELSE IF ofClass = "GeometryBuffer.initialize" THEN Len(trace[last].args[2].list)
        ELSE Len(BufferWithId(trace[last].args[2]).attributes)

\* Entry i is a bindGeometryBuffer of a geometry buffer, of either class,
\* that was initialized with a renderer and attributes.
BindsGeometry(i) ==
    \/ trace[i].op = "bindGeometryBuffer" /\ trace[i].before[1].renderer
    \/ /\ trace[i].op = "bindGeometryBuffer(geometry_buffer)"
       /\ trace[i].before[1].renderer = "context"

\* C35: bindGeometryBuffer of a geometry buffer that owns a layout object
\* issues nothing but the bind of that vertex array object, and only when it
\* is not the one bound; of a geometry buffer without one it leaves the
\* geometry's array buffer bound in the cache and issues one
\* vertexAttribPointer per descriptor of the geometry, on every call.
C35_BindGeometryBuffer ==
    \A i \in 1 .. Len(trace) :
        BindsGeometry(i) =>
            LET g == trace[i].before[1]
                b == trace[i].before[2]
                st == trace[i].before[3]
            IN  /\ trace[i].err = "none"
                /\ IF Truthy(g.vao)
                   THEN /\ \A k \in 1 .. Len(trace[i].calls) :
                              /\ BindsVertexArray(trace[i].calls[k])
                              /\ trace[i].calls[k].a = <<g.vao>>
                        /\ Len(trace[i].calls) = (IF st.vaoId = g.vao THEN 0 ELSE 1)
                   ELSE /\ trace[i].after.arrayBuffer = b.id
                        /\ InitializedWith(i) > 0
                        /\ Len(CallsTo(trace[i].calls, "vertexAttribPointer"))
                             = InitializedWith(i)

\* The six indices of quad q: two triangles over the vertices 4q .. 4q + 3.
QuadIndices(q) ==
    <<Uint16(4 * q + 0), Uint16(4 * q + 1), Uint16(4 * q + 2),
      Uint16(4 * q + 1), Uint16(4 * q + 3), Uint16(4 * q + 2)>>

\* C36: after new QuadIndexBuffer(n) the six elements at the positions
\* 6q .. 6q + 5 of the index data are 4q, 4q + 1, 4q + 2, 4q + 1, 4q + 3, 4q + 2
\* for every quad q of 0 .. n - 1.
C36_IndicesForEveryQuad ==
    \A i \in 1 .. Len(trace) :
        trace[i].op = "new QuadIndexBuffer" =>
            LET buffer == trace[i].after
            IN  /\ Len(buffer.rawBuffer) = 6 * buffer.capacity
                /\ \A q \in 0 .. buffer.capacity - 1 :
                      SubSeq(buffer.rawBuffer, 6 * q + 1, 6 * q + 6) = QuadIndices(q)

\* C37: after any sequence of enableAttributes and invalidate calls the
\* cache's attributeCount agrees with the context: every slot below
\* attributeCount is enabled on the context, and every slot from
\* max(1, attributeCount) on is disabled.
C37_AttributeCountMatchesContext ==
    LET count == state.attributeCount
        first == IF count > 1 THEN count ELSE 1
    IN  /\ \A slot \in 0 .. count - 1 : slot \in glctx.attribEnabled
        /\ \A slot \in glctx.attribEnabled : slot < first

\* Five slots were enabled, invalidate left only slot 0 enabled, and two
\* slots are enabled again.
C37_Witness ==
    /\ Len(trace) = 3
    /\ trace[1].op = "enableAttributes" /\ trace[1].args[2] = 5
    /\ trace[2].op = "invalidate"
    /\ DisabledSlots(trace[2].calls) = {1, 2, 3, 4}
    /\ trace[3].op = "enableAttributes" /\ trace[3].args[2] = 2
    /\ state.attributeCount = 2
    /\ glctx.attribEnabled = {0, 1}

\* Entry i is an operation of the state cache that raised.
CacheOpFailed(i) ==
    /\ trace[i].op \in {"bindTexture2D", "setDepthTest", "enableAttributes",
                        "bindVertexArray", "invalidate"}
    /\ trace[i].err # "none"

ProgramCalls ==
    Flatten([i \in 1 .. Len(trace) |->
                IF trace[i].op \in {"Program.initialize", "Program.dispose"}
                THEN trace[i].calls ELSE <<>>])

\* The native program and shader objects those calls created.
CreatedForProgram ==
    {ProgramCalls[k].a[1] : k \in {m \in 1 .. Len(ProgramCalls) :
                                      ProgramCalls[m].fn \in {"createProgram",
                                                              "createShader"}}}

\* How many times those calls deleted native object x.
TimesDeleted(x) ==
    Len(SelectSeq(ProgramCalls,
                  LAMBDA c : c.fn \in {"deleteProgram", "deleteShader"} /\ c.a = <<x>>))

\* The native objects the program handle holds.
HeldByProgram ==
    {res.program.id, res.program.vertexShader.id, res.program.fragmentShader.id} \ {Null}

\* C39: across Program.initialize and Program.dispose calls, those that fail
\* to compile or to link included, no native program or shader object is
\* deleted twice, every object not yet deleted is held by the program handle,
\* and once the handle is disposed every object created has been deleted
\* exactly once.
C39_ProgramObjectsDeletedOnce ==
    /\ \A x \in CreatedForProgram :
          /\ TimesDeleted(x) <= 1
          /\ TimesDeleted(x) = 0 => x \in HeldByProgram
    /\ \A x \in HeldByProgram : x \in CreatedForProgram /\ TimesDeleted(x) = 0
    /\ ~res.program.gl =>
          \A x \in CreatedForProgram : TimesDeleted(x) = 1

\* An initialize whose fragment shader did not compile created three
\* objects, and the dispose after it deleted each of them.
C39_Witness ==
    /\ Len(trace) >= 2
    /\ trace[Len(trace) - 1].op = "Program.initialize"
    /\ trace[Len(trace) - 1].err = "Shader.initialize - Failed to compile shader."
    /\ Len(CallsTo(trace[Len(trace) - 1].calls, "createShader")) = 2
    /\ Last.op = "Program.dispose"
    /\ Len(Last.calls) = 3
    /\ ~res.program.gl
    /\ \A x \in CreatedForProgram : TimesDeleted(x) = 1

====
